---- MODULE Spec2Model ----
(***************************************************************************)
(* Model of the TSW HUD route recorder (recording server), the post-trip   *)
(* marker resolver (process_trip.js) and the playback projector.           *)
(*                                                                         *)
(* Conventions                                                             *)
(*  - A JavaScript object is a function whose DOMAIN is the set of the     *)
(*    fields that are present; a missing field is `undefined`.             *)
(*  - An optional value (null or a value) is <<>> or <<v>>.                *)
(*  - Angles are integers in micro-degrees, lengths are integers in        *)
(*    centimetres (fixed point, two decimals of a metre).                  *)
(***************************************************************************)
EXTENDS Integers, Sequences, FiniteSets, TLC

(***************************************************************************)
(* JavaScript values                                                       *)
(***************************************************************************)
None == <<>>
Some(x) == <<x>>
IsSome(o) == o # <<>>
Val(o) == o[1]

Has(obj, f) == f \in DOMAIN obj
Del(obj, fs) == [f \in (DOMAIN obj) \ fs |-> obj[f]]
Put(obj, f, v) == [g \in (DOMAIN obj) \cup {f} |-> IF g = f THEN v ELSE obj[g]]

\* truthiness of a numeric field: undefined and 0 are falsy
TruthyNum(obj, f) == Has(obj, f) /\ obj[f] # 0
\* truthiness of a string field: undefined and "" are falsy
TruthyStr(obj, f) == Has(obj, f) /\ obj[f] # ""

\* discoveredMarkers.find(m => m.stationName === stationName): its index, 0 if none
RECURSIVE SeqIndexOf(_, _, _)
SeqIndexOf(s, stationName, i) ==
    IF i > Len(s) THEN 0
    ELSE IF s[i].stationName = stationName THEN i
    ELSE SeqIndexOf(s, stationName, i + 1)

(***************************************************************************)
(* Timetable Progress Tracker (recording server)                           *)
(* A time of day "HH:MM:SS" is <<h, m, s>>; the empty string is <<>>.      *)
(* A local time "<date>T<HH:MM:SS>.<frac>" is [date, hms, frac].           *)
(***************************************************************************)
\* timeToSeconds: null for a falsy string, else h*3600 + m*60 + s
timeToSeconds(timeStr) ==
    IF timeStr = <<>> THEN None
    ELSE Some(timeStr[1] * 3600 + timeStr[2] * 60 + timeStr[3])

\* numeric coercion of a possibly-null number in a comparison (null -> 0)
Num(o) == IF IsSome(o) THEN Val(o) ELSE 0
\* truthiness of a possibly-null number (null and 0 are falsy)
TruthyOpt(o) == IsSome(o) /\ Val(o) # 0

NoDisplay == [time |-> None, label |-> None, targetApiName |-> None, showDistance |-> FALSE]
\* DepartureDisplay showing the stop's arrival time
DepartureDisplay_ArrivalTime(stop) ==
    [time |-> Some(stop.arrival), label |-> Some("DEPARTURE"),
     targetApiName |-> None, showDistance |-> FALSE]
DepartureDisplay(stop) ==
    [time |-> Some(stop.departure), label |-> Some("DEPARTURE"),
     targetApiName |-> None, showDistance |-> FALSE]
\* ArrivalDisplay that targets the stop by its destination instead of its apiName
ArrivalDisplay_DestinationTarget(stop) ==
    [time |-> Some(stop.arrival), label |-> Some(stop.destination),
     targetApiName |-> Some(stop.destination), showDistance |-> TRUE]
ArrivalDisplay(stop) ==
    [time |-> Some(stop.arrival), label |-> Some(stop.destination),
     targetApiName |-> Some(stop.apiName), showDistance |-> TRUE]

\* TimetableLoop without the "at next station, before departure" branch
RECURSIVE TimetableLoop_NoDwell(_, _, _)
TimetableLoop_NoDwell(tt, currentSeconds, i) ==
    IF i > Len(tt) THEN NoDisplay
    ELSE
      LET stop == tt[i]
          departureSeconds == timeToSeconds(stop.departure)
      IN
      IF i = 1 /\ currentSeconds < Num(departureSeconds) THEN DepartureDisplay(stop)
      ELSE IF i = Len(tt) THEN ArrivalDisplay(stop)
      ELSE IF TruthyOpt(departureSeconds) /\ currentSeconds < Val(departureSeconds)
           THEN DepartureDisplay(stop)
      ELSE
        LET nextStop == tt[i + 1]
            nextArrivalSeconds == timeToSeconds(nextStop.arrival)
            nextDepartureSeconds == timeToSeconds(nextStop.departure)
        IN
        IF currentSeconds >= Num(departureSeconds) /\ currentSeconds < Num(nextArrivalSeconds)
          THEN ArrivalDisplay(nextStop)
        ELSE TimetableLoop_NoDwell(tt, currentSeconds, i + 1)

\* TimetableLoop without the "last stop" branch: reading the stop after the last
\* one throws, and the catch returns the all-null display
RECURSIVE TimetableLoop_Exhausts(_, _, _)
TimetableLoop_Exhausts(tt, currentSeconds, i) ==
    IF i > Len(tt) THEN NoDisplay
    ELSE
      LET stop == tt[i]
          departureSeconds == timeToSeconds(stop.departure)
      IN
      IF i = 1 /\ currentSeconds < Num(departureSeconds) THEN DepartureDisplay(stop)
      ELSE IF i = Len(tt) THEN NoDisplay
      ELSE IF TruthyOpt(departureSeconds) /\ currentSeconds < Val(departureSeconds)
           THEN DepartureDisplay(stop)
      ELSE
        LET nextStop == tt[i + 1]
            nextArrivalSeconds == timeToSeconds(nextStop.arrival)
            nextDepartureSeconds == timeToSeconds(nextStop.departure)
        IN
        IF currentSeconds >= Num(departureSeconds) /\ currentSeconds < Num(nextArrivalSeconds)
          THEN ArrivalDisplay(nextStop)
        ELSE IF currentSeconds >= Num(nextArrivalSeconds)
                /\ TruthyOpt(nextDepartureSeconds)
                /\ currentSeconds < Val(nextDepartureSeconds)
          THEN DepartureDisplay(nextStop)
        ELSE TimetableLoop_Exhausts(tt, currentSeconds, i + 1)

\* TimetableLoop whose "last stop" branch starts over at the first stop
RECURSIVE TimetableLoop_StartsOver(_, _, _)
TimetableLoop_StartsOver(tt, currentSeconds, i) ==
    IF i > Len(tt) THEN NoDisplay
    ELSE
      LET stop == tt[i]
          departureSeconds == timeToSeconds(stop.departure)
      IN
      IF i = 1 /\ currentSeconds < Num(departureSeconds) THEN DepartureDisplay(stop)
      ELSE IF i = Len(tt) THEN ArrivalDisplay(tt[1])
      ELSE IF TruthyOpt(departureSeconds) /\ currentSeconds < Val(departureSeconds)
           THEN DepartureDisplay(stop)
      ELSE
        LET nextStop == tt[i + 1]
            nextArrivalSeconds == timeToSeconds(nextStop.arrival)
            nextDepartureSeconds == timeToSeconds(nextStop.departure)
        IN
        IF currentSeconds >= Num(departureSeconds) /\ currentSeconds < Num(nextArrivalSeconds)
          THEN ArrivalDisplay(nextStop)
        ELSE IF currentSeconds >= Num(nextArrivalSeconds)
                /\ TruthyOpt(nextDepartureSeconds)
                /\ currentSeconds < Val(nextDepartureSeconds)
          THEN DepartureDisplay(nextStop)
        ELSE TimetableLoop_StartsOver(tt, currentSeconds, i + 1)

\* the for loop of getTimetableDisplay; a null time compares as 0
RECURSIVE TimetableLoop(_, _, _)
TimetableLoop(tt, currentSeconds, i) ==
    IF i > Len(tt) THEN NoDisplay
    ELSE
      LET stop == tt[i]
          departureSeconds == timeToSeconds(stop.departure)
      IN
      IF i = 1 /\ currentSeconds < Num(departureSeconds) THEN DepartureDisplay(stop)
      ELSE IF i = Len(tt) THEN ArrivalDisplay(stop)
      ELSE IF TruthyOpt(departureSeconds) /\ currentSeconds < Val(departureSeconds)
           THEN DepartureDisplay(stop)
      ELSE
        LET nextStop == tt[i + 1]
            nextArrivalSeconds == timeToSeconds(nextStop.arrival)
            nextDepartureSeconds == timeToSeconds(nextStop.departure)
        IN
        IF currentSeconds >= Num(departureSeconds) /\ currentSeconds < Num(nextArrivalSeconds)
          THEN ArrivalDisplay(nextStop)
        ELSE IF currentSeconds >= Num(nextArrivalSeconds)
                /\ TruthyOpt(nextDepartureSeconds)
                /\ currentSeconds < Val(nextDepartureSeconds)
          THEN DepartureDisplay(nextStop)
        ELSE TimetableLoop(tt, currentSeconds, i + 1)

\* getTimetableDisplay(currentTimeISO) over the global timetableData;
\* currentTimeISO is None when there is no local time; split('T')[1].split('.')[0]
\* selects the time-of-day part
getTimetableDisplay(tt, currentTimeISO) ==
    IF Len(tt) = 0 \/ ~IsSome(currentTimeISO) THEN NoDisplay
    ELSE TimetableLoop(tt, Val(timeToSeconds(Val(currentTimeISO).hms)), 1)

\* getTimetableDisplay of the playback server: the same code with a debug log
getTimetableDisplayPlayback(tt, currentTimeISO) ==
    IF Len(tt) = 0 \/ ~IsSome(currentTimeISO) THEN NoDisplay
    ELSE TimetableLoop(tt, Val(timeToSeconds(Val(currentTimeISO).hms)), 1)

(***************************************************************************)
(* Geodesic distance (process_trip.js and the playback server)             *)
(* Haversine in fixed point: for the small spans modelled here (a few      *)
(* thousandths of a degree, next to the equator) R*c equals                *)
(* R * sqrt(dlat^2 + dlon^2) in radians to within the fixed-point step.    *)
(* Coordinates are in micro-degrees, the result is in centimetres.         *)
(***************************************************************************)
EarthRadius == 6371000

RECURSIVE SqrtIter(_, _)
SqrtIter(n, x) ==
    IF (x + n \div x) \div 2 >= x THEN x ELSE SqrtIter(n, (x + n \div x) \div 2)
\* floor of the square root
ISqrt(n) == IF n = 0 THEN 0 ELSE SqrtIter(n, n)

calculateDistance(lat1, lon1, lat2, lon2) ==
    LET \* central angle in tenths of a micro-degree
        c == ISqrt(100 * ((lat2 - lat1) * (lat2 - lat1) + (lon2 - lon1) * (lon2 - lon1)))
    IN \* R * c * pi / 180, pi = 3927/1250, in centimetres
       (((c * (EarthRadius \div 1000)) \div 1000) * 3927) \div 22500

(***************************************************************************)
(* Marker Position Resolver (process_trip.js)                              *)
(* Indices are 0-based as in the source: vertex i is coordinates[i + 1].   *)
(***************************************************************************)
At(coordinates, i) == coordinates[i + 1]
PositionOf(coord) == [latitude |-> coord.latitude, longitude |-> coord.longitude]

\* the while loop of followRoutePath; remainingDistance > 0 on entry
RECURSIVE WalkLoop(_, _, _)
WalkLoop(coordinates, currentIndex, remainingDistance) ==
    IF ~(currentIndex < Len(coordinates) - 1 /\ remainingDistance > 0)
    THEN PositionOf(At(coordinates, Len(coordinates) - 1))
    ELSE
      LET current == At(coordinates, currentIndex)
          next == At(coordinates, currentIndex + 1)
          segmentDistance == calculateDistance(current.latitude, current.longitude,
                                               next.latitude, next.longitude)
      IN
      IF segmentDistance >= remainingDistance
      THEN \* current + (next - current) * remainingDistance / segmentDistance
           [latitude |-> current.latitude
                + ((next.latitude - current.latitude) * remainingDistance) \div segmentDistance,
            longitude |-> current.longitude
                + ((next.longitude - current.longitude) * remainingDistance) \div segmentDistance]
      ELSE WalkLoop(coordinates, currentIndex + 1, remainingDistance - segmentDistance)

\* followRoutePath(coordinates, startIndex, distanceMeters); distanceMeters is
\* None for null (a NaN written to the file), which compares as 0
followRoutePath(coordinates, startIndex, distanceMeters) ==
    IF startIndex >= Len(coordinates) - 1
    THEN PositionOf(At(coordinates, Len(coordinates) - 1))
    ELSE WalkLoop(coordinates, startIndex, Num(distanceMeters))

\* NearestLoop with `distance <= minDistance`: the last of the nearest vertices
RECURSIVE NearestLoop_LastMin(_, _, _, _, _, _)
NearestLoop_LastMin(coordinates, targetLat, targetLon, i, minDistance, nearestIndex) ==
    IF i >= Len(coordinates) THEN nearestIndex
    ELSE
      LET distance == calculateDistance(targetLat, targetLon,
                                        At(coordinates, i).latitude,
                                        At(coordinates, i).longitude)
      IN IF ~IsSome(minDistance) \/ distance <= Val(minDistance)
         THEN NearestLoop_LastMin(coordinates, targetLat, targetLon, i + 1, Some(distance), i)
         ELSE NearestLoop_LastMin(coordinates, targetLat, targetLon, i + 1, minDistance,
                                  nearestIndex)

\* the for loop of findNearestCoordinateIndex; minDistance None is Infinity
RECURSIVE NearestLoop(_, _, _, _, _, _)
NearestLoop(coordinates, targetLat, targetLon, i, minDistance, nearestIndex) ==
    IF i >= Len(coordinates) THEN nearestIndex
    ELSE
      LET distance == calculateDistance(targetLat, targetLon,
                                        At(coordinates, i).latitude,
                                        At(coordinates, i).longitude)
      IN IF ~IsSome(minDistance) \/ distance < Val(minDistance)
         THEN NearestLoop(coordinates, targetLat, targetLon, i + 1, Some(distance), i)
         ELSE NearestLoop(coordinates, targetLat, targetLon, i + 1, minDistance, nearestIndex)

findNearestCoordinateIndex(coordinates, targetLat, targetLon) ==
    NearestLoop(coordinates, targetLat, targetLon, 0, None, 0)

\* the fields deleted at the end of every iteration of processMarkers
CleanedFields ==
    {"detectedAt", "distanceAheadMeters", "timestamp", "platformLength",
     "calculationMethod", "onspot_latitude", "onspot_longitude", "onspot_timestamp",
     "spoton_distance"}

UseOnspot(marker) ==
    /\ TruthyNum(marker, "onspot_latitude")
    /\ TruthyNum(marker, "onspot_longitude")
    /\ Has(marker, "spoton_distance")

UseDetectedAt(marker) ==
    /\ Has(marker, "detectedAt")
    /\ TruthyNum(marker.detectedAt, "latitude")
    /\ TruthyNum(marker.detectedAt, "longitude")
    /\ Has(marker, "distanceAheadMeters")

\* ResolveMarker whose 'none' branch also clears the marker's position
ResolveMarker_NoneClears(coordinates, marker0, timetableStations) ==
    LET marker == Put(marker0, "isTimetableStation",
                      Has(marker0, "stationName") /\ marker0.stationName \in timetableStations)
    IN
    IF UseOnspot(marker)
    THEN LET position == followRoutePath(coordinates,
                             findNearestCoordinateIndex(coordinates, marker.onspot_latitude,
                                                        marker.onspot_longitude),
                             Some(marker.spoton_distance))
         IN [marker |-> Put(Put(Put(marker, "latitude", position.latitude),
                                "longitude", position.longitude),
                            "calculationMethod", "onspot"),
             counted |-> "onspot", caught |-> FALSE]
    ELSE IF UseDetectedAt(marker)
    THEN LET position == followRoutePath(coordinates,
                             findNearestCoordinateIndex(coordinates, marker.detectedAt.latitude,
                                                        marker.detectedAt.longitude),
                             marker.distanceAheadMeters)
             caught == ~IsSome(marker.distanceAheadMeters)
         IN [marker |-> Put(Put(Put(marker, "latitude", position.latitude),
                                "longitude", position.longitude),
                            "calculationMethod", IF caught THEN "error" ELSE "detectedAt"),
             counted |-> "detectedAt", caught |-> caught]
    ELSE [marker |-> Put(Del(marker, {"latitude", "longitude"}), "calculationMethod", "none"),
          counted |-> "none", caught |-> FALSE]

\* one iteration of the marker loop: the marker before the clean-up, with the
\* method that was counted ("onspot", "detectedAt", "none") and whether the
\* catch block ran
ResolveMarker(coordinates, marker0, timetableStations) ==
    LET marker == Put(marker0, "isTimetableStation",
                      Has(marker0, "stationName") /\ marker0.stationName \in timetableStations)
    IN
    IF UseOnspot(marker)
    THEN LET position == followRoutePath(coordinates,
                             findNearestCoordinateIndex(coordinates, marker.onspot_latitude,
                                                        marker.onspot_longitude),
                             Some(marker.spoton_distance))
         IN [marker |-> Put(Put(Put(marker, "latitude", position.latitude),
                                "longitude", position.longitude),
                            "calculationMethod", "onspot"),
             counted |-> "onspot", caught |-> FALSE]
    ELSE IF UseDetectedAt(marker)
    THEN LET position == followRoutePath(coordinates,
                             findNearestCoordinateIndex(coordinates, marker.detectedAt.latitude,
                                                        marker.detectedAt.longitude),
                             marker.distanceAheadMeters)
             \* distanceAheadMeters.toFixed(2) throws on null, after the assignments
             caught == ~IsSome(marker.distanceAheadMeters)
         IN [marker |-> Put(Put(Put(marker, "latitude", position.latitude),
                                "longitude", position.longitude),
                            "calculationMethod", IF caught THEN "error" ELSE "detectedAt"),
             counted |-> "detectedAt", caught |-> caught]
    ELSE [marker |-> Put(marker, "calculationMethod", "none"),
          counted |-> "none", caught |-> FALSE]

\* the marker as processMarkers leaves it
processMarker(coordinates, marker, timetableStations) ==
    Del(ResolveMarker(coordinates, marker, timetableStations).marker, CleanedFields)

\* processMarkers that leaves the markers it could not resolve out of the list
processMarkers_DropsUnresolved(data, timetableStations) ==
    IF ~Has(data, "coordinates") \/ Len(data.coordinates) = 0
    THEN [thrown |-> TRUE, data |-> data, count |-> 0]
    ELSE IF ~Has(data, "markers")
    THEN [thrown |-> FALSE, data |-> data, count |-> 0]
    ELSE LET Located(marker) == Has(marker, "latitude")
         IN [thrown |-> FALSE,
             data |-> [data EXCEPT !.markers =
                          SelectSeq([i \in 1..Len(data.markers) |->
                                        processMarker(data.coordinates, data.markers[i],
                                                      timetableStations)],
                                    Located)],
             count |-> Cardinality({ i \in 1..Len(data.markers) :
                          ResolveMarker(data.coordinates, data.markers[i],
                                        timetableStations).counted # "none" })]

\* processMarkers(data, timetableStations): the mutated data and the returned
\* count, or thrown when the coordinates are missing or empty
processMarkers(data, timetableStations) ==
    IF ~Has(data, "coordinates") \/ Len(data.coordinates) = 0
    THEN [thrown |-> TRUE, data |-> data, count |-> 0]
    ELSE IF ~Has(data, "markers")
    THEN [thrown |-> FALSE, data |-> data, count |-> 0]
    ELSE [thrown |-> FALSE,
          data |-> [data EXCEPT !.markers =
                       [i \in 1..Len(data.markers) |->
                           processMarker(data.coordinates, data.markers[i], timetableStations)]],
          count |-> Cardinality({ i \in 1..Len(data.markers) :
                       ResolveMarker(data.coordinates, data.markers[i],
                                     timetableStations).counted # "none" })]

\* data.timetable.map(stop => stop.apiName).filter(name => name)
ApiNames(timetable) ==
    { timetable[i].apiName : i \in { j \in 1..Len(timetable) : timetable[j].apiName # "" } }

\* processRouteFile(inputPath, outputPath) on the parsed input; csvTimetable is
\* what loadTimetableStations finds.  written: the output file was written
processRouteFile(data, csvTimetable) ==
    LET embedded == Has(data, "timetable") /\ Len(data.timetable) > 0
        timetableData == IF embedded THEN data.timetable ELSE csvTimetable
        res == processMarkers(data, ApiNames(timetableData))
        withTimetable == IF Len(timetableData) > 0
                         THEN Put(res.data, "timetable", timetableData) ELSE res.data
    IN
    IF res.thrown THEN [thrown |-> TRUE, written |-> FALSE, output |-> data]
    ELSE IF res.count = 0 /\ Len(timetableData) = 0
    THEN [thrown |-> FALSE, written |-> FALSE, output |-> withTimetable]
    ELSE [thrown |-> FALSE, written |-> TRUE,
          output |-> Del(withTimetable, {"markersProcessed", "markersProcessedTimestamp",
                                          "processingVersion"})]

(***************************************************************************)
(* Route Projector (playback server)                                       *)
(***************************************************************************)
VARIABLES
    loadedRouteData,     \* null or the route the user selected
    projection,          \* null or the last projection: its arguments and results
    prevProjection       \* null or the projection before it, on the same route

projVars == <<loadedRouteData, projection, prevProjection>>

HasPolyline == IsSome(loadedRouteData) /\ Has(Val(loadedRouteData), "coordinates")

\* the for loop of findNearestRouteIndex; minDistance None is Infinity
RECURSIVE NearestRouteLoop(_, _, _, _, _, _)
NearestRouteLoop(coordinates, lat, lon, i, minDistance, nearestIndex) ==
    IF i >= Len(coordinates) THEN nearestIndex
    ELSE
      LET distance == calculateDistance(lat, lon, At(coordinates, i).latitude,
                                        At(coordinates, i).longitude)
      IN IF ~IsSome(minDistance) \/ distance < Val(minDistance)
         THEN NearestRouteLoop(coordinates, lat, lon, i + 1, Some(distance), i)
         ELSE NearestRouteLoop(coordinates, lat, lon, i + 1, minDistance, nearestIndex)

findNearestRouteIndex(lat, lon) ==
    IF ~HasPolyline THEN -1
    ELSE NearestRouteLoop(Val(loadedRouteData).coordinates, lat, lon, 0, None, 0)

\* SumSegments over the segments already travelled, 0 .. i - 1
RECURSIVE SumSegments_Travelled(_, _, _)
SumSegments_Travelled(coordinates, i, markerIndex) ==
    IF i <= 0 THEN 0
    ELSE calculateDistance(At(coordinates, i - 1).latitude, At(coordinates, i - 1).longitude,
                           At(coordinates, i).latitude, At(coordinates, i).longitude)
         + SumSegments_Travelled(coordinates, i - 1, markerIndex)

\* the loop starting one segment late, at playerIndex + 1
RECURSIVE SumSegments_SkipFirst(_, _, _)
SumSegments_SkipFirst(coordinates, i, markerIndex) ==
    IF i + 1 >= markerIndex THEN 0
    ELSE calculateDistance(At(coordinates, i + 1).latitude, At(coordinates, i + 1).longitude,
                           At(coordinates, i + 2).latitude, At(coordinates, i + 2).longitude)
         + SumSegments_SkipFirst(coordinates, i + 1, markerIndex)

\* totalDistance over the segments i .. markerIndex - 1
RECURSIVE SumSegments(_, _, _)
SumSegments(coordinates, i, markerIndex) ==
    IF i >= markerIndex THEN 0
    ELSE calculateDistance(At(coordinates, i).latitude, At(coordinates, i).longitude,
                           At(coordinates, i + 1).latitude, At(coordinates, i + 1).longitude)
         + SumSegments(coordinates, i + 1, markerIndex)

\* calculateDistanceAlongRoute returning null for a marker behind the player
calculateDistanceAlongRoute_BehindNull(playerLat, playerLon, markerLat, markerLon) ==
    IF ~HasPolyline THEN None
    ELSE
      LET playerIndex == findNearestRouteIndex(playerLat, playerLon)
          markerIndex == findNearestRouteIndex(markerLat, markerLon)
      IN IF playerIndex = -1 \/ markerIndex = -1 THEN None
         ELSE IF markerIndex <= playerIndex THEN None
         ELSE Some(SumSegments(Val(loadedRouteData).coordinates, playerIndex, markerIndex))

\* calculateDistanceAlongRoute: None is null
calculateDistanceAlongRoute(playerLat, playerLon, markerLat, markerLon) ==
    IF ~HasPolyline THEN None
    ELSE
      LET playerIndex == findNearestRouteIndex(playerLat, playerLon)
          markerIndex == findNearestRouteIndex(markerLat, markerLon)
      IN IF playerIndex = -1 \/ markerIndex = -1 THEN None
         ELSE IF markerIndex <= playerIndex THEN Some(0)
         ELSE Some(SumSegments(Val(loadedRouteData).coordinates, playerIndex, markerIndex))

(***************************************************************************)
(* Route Trace Recorder: the recording server's poll handler               *)
(***************************************************************************)
VARIABLES
    routeCoordinates,            \* the trace
    lastRouteCoordinate,         \* null or the last appended coordinate
    routeCollectionStartTime,    \* null or set (the clock value is abstracted)
    routeCollectionRequestCount,
    discoveredMarkers,
    processedMarkers,            \* the seen-set of marker names
    currentPlayerPosition,
    currentGradient,
    currentHeight,
    routeOutputFilePath,
    timetableData,
    lastDistanceToStation,
    lastTargetApiName,
    routeFile,                   \* the content of the file at routeOutputFilePath
    skeleton,                    \* the skeleton file found in unprocessed_routes/, if any
    intervals,                   \* the viewers whose poll timer is active
    emitted,                     \* the payload written by the last tick
    tick                         \* what the last tick did (history)

recVars == <<routeCoordinates, lastRouteCoordinate, routeCollectionStartTime,
             routeCollectionRequestCount, discoveredMarkers, processedMarkers,
             currentPlayerPosition, currentGradient, currentHeight,
             routeOutputFilePath, timetableData, lastDistanceToStation,
             lastTargetApiName, routeFile, skeleton, intervals, emitted, tick>>

\* cm -> metres (distanceCM / 100), in fixed point with two decimals
CmToMeters(distanceCM) == (distanceCM * 100) \div 100
\* Math.round(distanceCM / 100), for distanceCM >= 0
RoundCmToMeters(distanceCM) == (distanceCM + 50) \div 100

\* the globals of the module as one record, plus the handler's locals
Globals ==
    [routeCoordinates |-> routeCoordinates,
     lastRouteCoordinate |-> lastRouteCoordinate,
     routeCollectionRequestCount |-> routeCollectionRequestCount,
     discoveredMarkers |-> discoveredMarkers,
     processedMarkers |-> processedMarkers,
     currentPlayerPosition |-> currentPlayerPosition,
     currentGradient |-> currentGradient,
     currentHeight |-> currentHeight,
     routeOutputFilePath |-> routeOutputFilePath,
     timetableData |-> timetableData,
     lastDistanceToStation |-> lastDistanceToStation,
     lastTargetApiName |-> lastTargetApiName,
     routeFile |-> routeFile,
     thrown |-> FALSE,       \* an exception left the try block
     writes |-> 0,           \* writeFileSync calls made by this tick
     readNow |-> None]       \* the distance this tick read for its target

\* NaN (undefined / 100): a number that is neither null nor a value
NaN == <<"NaN", "NaN">>

\* JSON.stringify of the markers: a NaN distance is written as null
MarkerToJSON(marker) ==
    IF Has(marker, "distanceAheadMeters") /\ marker.distanceAheadMeters = NaN
    THEN Put(marker, "distanceAheadMeters", None) ELSE marker
MarkersToJSON(markers) == [i \in 1..Len(markers) |-> MarkerToJSON(markers[i])]

\* saveRouteData that writes the recording without reading the existing file
saveRouteData_FreshOutput(g, failAt) ==
    IF g.thrown THEN g
    ELSE IF ~IsSome(g.routeOutputFilePath) \/ Len(g.routeCoordinates) = 0 THEN g
    ELSE
      LET output == [routeName |-> "Route Recording",
                     totalPoints |-> Len(g.routeCoordinates),
                     totalMarkers |-> Len(g.discoveredMarkers),
                     requestCount |-> g.routeCollectionRequestCount,
                     coordinates |-> g.routeCoordinates,
                     markers |-> MarkersToJSON(g.discoveredMarkers)]
      IN IF g.writes + 1 = failAt
         THEN [g EXCEPT !.writes = @ + 1, !.thrown = TRUE]
         ELSE [g EXCEPT !.writes = @ + 1, !.routeFile = Some(output)]

\* saveRouteData(); the failAt-th write of the tick throws (0: none does)
saveRouteData(g, failAt) ==
    IF g.thrown THEN g
    ELSE IF ~IsSome(g.routeOutputFilePath) \/ Len(g.routeCoordinates) = 0 THEN g
    ELSE
      LET existing == g.routeFile
          output == [routeName |-> IF IsSome(existing) /\ TruthyStr(Val(existing), "routeName")
                                   THEN Val(existing).routeName ELSE "Route Recording",
                     totalPoints |-> Len(g.routeCoordinates),
                     totalMarkers |-> Len(g.discoveredMarkers),
                     requestCount |-> g.routeCollectionRequestCount,
                     coordinates |-> g.routeCoordinates,
                     markers |-> MarkersToJSON(g.discoveredMarkers)]
          withTimetable == IF IsSome(existing) /\ Has(Val(existing), "timetable")
                           THEN Put(output, "timetable", Val(existing).timetable)
                           ELSE output
      IN IF g.writes + 1 = failAt
         THEN [g EXCEPT !.writes = @ + 1, !.thrown = TRUE]
         ELSE [g EXCEPT !.writes = @ + 1, !.routeFile = Some(withTimetable)]

\* PlayerInfoEntry comparing height and gradient too
PlayerInfoEntry_WholeCoordinate(g, entry, failAt) ==
    IF ~(Has(entry.Values, "geoLocation")
         /\ Has(entry.Values.geoLocation, "longitude")
         /\ Has(entry.Values.geoLocation, "latitude"))
    THEN g
    ELSE
      LET base == [longitude |-> entry.Values.geoLocation.longitude,
                   latitude |-> entry.Values.geoLocation.latitude]
          withHeight == IF IsSome(g.currentHeight)
                        THEN Put(base, "height", Val(g.currentHeight)) ELSE base
          coordinate == IF IsSome(g.currentGradient)
                        THEN Put(withHeight, "gradient", Val(g.currentGradient))
                        ELSE withHeight
          g1 == [g EXCEPT !.currentPlayerPosition = Some(coordinate)]
      IN
      IF ~IsSome(g.lastRouteCoordinate)
         \/ Val(g.lastRouteCoordinate) # coordinate
      THEN saveRouteData([g1 EXCEPT !.routeCoordinates = Append(@, coordinate),
                                    !.lastRouteCoordinate = Some(coordinate),
                                    !.routeCollectionRequestCount = @ + 1],
                         failAt)
      ELSE g1

\* PlayerInfoEntry counting every position sample, appended or not
PlayerInfoEntry_CountsSamples(g, entry, failAt) ==
    IF ~(Has(entry.Values, "geoLocation")
         /\ Has(entry.Values.geoLocation, "longitude")
         /\ Has(entry.Values.geoLocation, "latitude"))
    THEN g
    ELSE
      LET base == [longitude |-> entry.Values.geoLocation.longitude,
                   latitude |-> entry.Values.geoLocation.latitude]
          withHeight == IF IsSome(g.currentHeight)
                        THEN Put(base, "height", Val(g.currentHeight)) ELSE base
          coordinate == IF IsSome(g.currentGradient)
                        THEN Put(withHeight, "gradient", Val(g.currentGradient))
                        ELSE withHeight
          g1 == [g EXCEPT !.currentPlayerPosition = Some(coordinate),
                          !.routeCollectionRequestCount = @ + 1]
      IN
      IF ~IsSome(g.lastRouteCoordinate)
         \/ Val(g.lastRouteCoordinate).longitude # coordinate.longitude
         \/ Val(g.lastRouteCoordinate).latitude # coordinate.latitude
      THEN saveRouteData([g1 EXCEPT !.routeCoordinates = Append(@, coordinate),
                                    !.lastRouteCoordinate = Some(coordinate)],
                         failAt)
      ELSE g1

\* PlayerInfoEntry appending only when the latitude changed
PlayerInfoEntry_LatitudeOnly(g, entry, failAt) ==
    IF ~(Has(entry.Values, "geoLocation")
         /\ Has(entry.Values.geoLocation, "longitude")
         /\ Has(entry.Values.geoLocation, "latitude"))
    THEN g
    ELSE
      LET base == [longitude |-> entry.Values.geoLocation.longitude,
                   latitude |-> entry.Values.geoLocation.latitude]
          withHeight == IF IsSome(g.currentHeight)
                        THEN Put(base, "height", Val(g.currentHeight)) ELSE base
          coordinate == IF IsSome(g.currentGradient)
                        THEN Put(withHeight, "gradient", Val(g.currentGradient))
                        ELSE withHeight
          g1 == [g EXCEPT !.currentPlayerPosition = Some(coordinate)]
      IN
      IF ~IsSome(g.lastRouteCoordinate)
         \/ Val(g.lastRouteCoordinate).latitude # coordinate.latitude
      THEN saveRouteData([g1 EXCEPT !.routeCoordinates = Append(@, coordinate),
                                    !.lastRouteCoordinate = Some(coordinate),
                                    !.routeCollectionRequestCount = @ + 1],
                         failAt)
      ELSE g1

\* PlayerInfoEntry without `lastRouteCoordinate = coordinate`
PlayerInfoEntry_StaleLast(g, entry, failAt) ==
    IF ~(Has(entry.Values, "geoLocation")
         /\ Has(entry.Values.geoLocation, "longitude")
         /\ Has(entry.Values.geoLocation, "latitude"))
    THEN g
    ELSE
      LET base == [longitude |-> entry.Values.geoLocation.longitude,
                   latitude |-> entry.Values.geoLocation.latitude]
          withHeight == IF IsSome(g.currentHeight)
                        THEN Put(base, "height", Val(g.currentHeight)) ELSE base
          coordinate == IF IsSome(g.currentGradient)
                        THEN Put(withHeight, "gradient", Val(g.currentGradient))
                        ELSE withHeight
          g1 == [g EXCEPT !.currentPlayerPosition = Some(coordinate)]
      IN
      IF ~IsSome(g.lastRouteCoordinate)
         \/ Val(g.lastRouteCoordinate).longitude # coordinate.longitude
         \/ Val(g.lastRouteCoordinate).latitude # coordinate.latitude
      THEN saveRouteData([g1 EXCEPT !.routeCoordinates = Append(@, coordinate),
                                    !.lastRouteCoordinate =
                                        IF IsSome(@) THEN @ ELSE Some(coordinate),
                                    !.routeCollectionRequestCount = @ + 1],
                         failAt)
      ELSE g1

\* DriverAid.PlayerInfo branch
PlayerInfoEntry(g, entry, failAt) ==
    IF ~(Has(entry.Values, "geoLocation")
         /\ Has(entry.Values.geoLocation, "longitude")
         /\ Has(entry.Values.geoLocation, "latitude"))
    THEN g
    ELSE
      LET base == [longitude |-> entry.Values.geoLocation.longitude,
                   latitude |-> entry.Values.geoLocation.latitude]
          withHeight == IF IsSome(g.currentHeight)
                        THEN Put(base, "height", Val(g.currentHeight)) ELSE base
          coordinate == IF IsSome(g.currentGradient)
                        THEN Put(withHeight, "gradient", Val(g.currentGradient))
                        ELSE withHeight
          g1 == [g EXCEPT !.currentPlayerPosition = Some(coordinate)]
      IN
      IF ~IsSome(g.lastRouteCoordinate)
         \/ Val(g.lastRouteCoordinate).longitude # coordinate.longitude
         \/ Val(g.lastRouteCoordinate).latitude # coordinate.latitude
      THEN saveRouteData([g1 EXCEPT !.routeCoordinates = Append(@, coordinate),
                                    !.lastRouteCoordinate = Some(coordinate),
                                    !.routeCollectionRequestCount = @ + 1],
                         failAt)
      ELSE g1

\* station.stationName || station.markerName ("" stands for a falsy name)
MarkerNameOf(item) ==
    IF TruthyStr(item, "stationName") THEN item.stationName
    ELSE IF Has(item, "markerName") THEN item.markerName
    ELSE ""

\* checkPassingStation keeping the closest pass only
checkPassingStation_CloserOnly(g, item, failAt) ==
    LET markerName == MarkerNameOf(item) IN
    IF g.thrown THEN g
    ELSE IF ~(Has(item, "distanceToStationCM") /\ item.distanceToStationCM < 1000
              /\ markerName # "")
    THEN g
    ELSE IF ~(\E k \in 1..Len(g.timetableData) : g.timetableData[k].apiName = markerName)
    THEN g
    ELSE
      LET k == SeqIndexOf(g.discoveredMarkers, markerName, 1)
      IN
      IF k = 0 THEN g
      ELSE IF Has(g.discoveredMarkers[k], "spoton_distance")
              /\ g.discoveredMarkers[k].spoton_distance <= CmToMeters(item.distanceToStationCM)
      THEN g
      ELSE
        LET pos == Val(g.currentPlayerPosition)
            m1 == Put(g.discoveredMarkers[k], "onspot_latitude", pos.latitude)
            m2 == Put(m1, "onspot_longitude", pos.longitude)
            m3 == Put(m2, "onspot_timestamp", "now")
            m4 == Put(m3, "spoton_distance", CmToMeters(item.distanceToStationCM))
        IN saveRouteData([g EXCEPT !.discoveredMarkers[k] = m4], failAt)

\* checkPassingStation moving the detection to where the marker is passed
checkPassingStation_Reanchor(g, item, failAt) ==
    LET markerName == MarkerNameOf(item) IN
    IF g.thrown THEN g
    ELSE IF ~(Has(item, "distanceToStationCM") /\ item.distanceToStationCM < 1000
              /\ markerName # "")
    THEN g
    ELSE IF ~(\E k \in 1..Len(g.timetableData) : g.timetableData[k].apiName = markerName)
    THEN g
    ELSE
      LET k == SeqIndexOf(g.discoveredMarkers, markerName, 1)
      IN
      IF k = 0 THEN g
      ELSE
        LET pos == Val(g.currentPlayerPosition)
            m0 == Put(g.discoveredMarkers[k], "detectedAt",
                      [longitude |-> pos.longitude, latitude |-> pos.latitude])
            m1 == Put(m0, "onspot_latitude", pos.latitude)
            m2 == Put(m1, "onspot_longitude", pos.longitude)
            m3 == Put(m2, "onspot_timestamp", "now")
            m4 == Put(m3, "spoton_distance", CmToMeters(item.distanceToStationCM))
        IN saveRouteData([g EXCEPT !.discoveredMarkers[k] = m4], failAt)

\* checkPassingStation(markerName, distanceCM); item.distanceToStationCM may be missing
checkPassingStation(g, item, failAt) ==
    LET markerName == MarkerNameOf(item) IN
    IF g.thrown THEN g
    ELSE IF ~(Has(item, "distanceToStationCM") /\ item.distanceToStationCM < 1000
              /\ markerName # "")
    THEN g
    ELSE IF ~(\E k \in 1..Len(g.timetableData) : g.timetableData[k].apiName = markerName)
    THEN g
    ELSE
      LET k == SeqIndexOf(g.discoveredMarkers, markerName, 1)
      IN
      IF k = 0 THEN g
      ELSE
        LET pos == Val(g.currentPlayerPosition)
            m1 == Put(g.discoveredMarkers[k], "onspot_latitude", pos.latitude)
            m2 == Put(m1, "onspot_longitude", pos.longitude)
            m3 == Put(m2, "onspot_timestamp", "now")
            m4 == Put(m3, "spoton_distance", CmToMeters(item.distanceToStationCM))
        IN saveRouteData([g EXCEPT !.discoveredMarkers[k] = m4], failAt)

\* TrackItem that creates the marker without writing the file
TrackItem_NoSave(g, item, defaultType, failAt) ==
    LET markerName == MarkerNameOf(item)
        g1 == checkPassingStation(g, item, failAt)
    IN
    IF g1.thrown THEN g1
    ELSE IF markerName = "" \/ markerName \in g1.processedMarkers THEN g1
    ELSE
      LET pos == Val(g1.currentPlayerPosition)
          base == [stationName |-> markerName,
                   markerType |-> IF TruthyStr(item, "markerType")
                                  THEN item.markerType ELSE defaultType,
                   detectedAt |-> [longitude |-> pos.longitude, latitude |-> pos.latitude],
                   distanceAheadMeters |-> IF Has(item, "distanceToStationCM")
                                           THEN Some(CmToMeters(item.distanceToStationCM))
                                           ELSE NaN,
                   timestamp |-> "now"]
          marker == IF Has(item, "platformLength")
                    THEN Put(base, "platformLength", item.platformLength) ELSE base
      IN [g1 EXCEPT !.discoveredMarkers = Append(@, marker),
                    !.processedMarkers = @ \cup {markerName}]

\* TrackItem with the seen-set updated only after a successful save
TrackItem_AddAfterSave(g, item, defaultType, failAt) ==
    LET markerName == MarkerNameOf(item)
        g1 == checkPassingStation(g, item, failAt)
    IN
    IF g1.thrown THEN g1
    ELSE IF markerName = "" \/ markerName \in g1.processedMarkers THEN g1
    ELSE
      LET pos == Val(g1.currentPlayerPosition)
          base == [stationName |-> markerName,
                   markerType |-> IF TruthyStr(item, "markerType")
                                  THEN item.markerType ELSE defaultType,
                   detectedAt |-> [longitude |-> pos.longitude, latitude |-> pos.latitude],
                   distanceAheadMeters |-> IF Has(item, "distanceToStationCM")
                                           THEN Some(CmToMeters(item.distanceToStationCM))
                                           ELSE NaN,
                   timestamp |-> "now"]
          marker == IF Has(item, "platformLength")
                    THEN Put(base, "platformLength", item.platformLength) ELSE base
          g2 == saveRouteData([g1 EXCEPT !.discoveredMarkers = Append(@, marker)], failAt)
      IN IF g2.thrown THEN g2
         ELSE [g2 EXCEPT !.processedMarkers = @ \cup {markerName}]

\* one iteration of the stations loop (defaultType "Station") or of the markers
\* loop (defaultType "Marker")
TrackItem(g, item, defaultType, failAt) ==
    LET markerName == MarkerNameOf(item)
        g1 == checkPassingStation(g, item, failAt)
    IN
    IF g1.thrown THEN g1
    ELSE IF markerName = "" \/ markerName \in g1.processedMarkers THEN g1
    ELSE
      LET pos == Val(g1.currentPlayerPosition)
          base == [stationName |-> markerName,
                   markerType |-> IF TruthyStr(item, "markerType")
                                  THEN item.markerType ELSE defaultType,
                   detectedAt |-> [longitude |-> pos.longitude, latitude |-> pos.latitude],
                   \* NaN when the distance is missing
                   distanceAheadMeters |-> IF Has(item, "distanceToStationCM")
                                           THEN Some(CmToMeters(item.distanceToStationCM))
                                           ELSE NaN,
                   timestamp |-> "now"]
          marker == IF Has(item, "platformLength")
                    THEN Put(base, "platformLength", item.platformLength) ELSE base
      IN saveRouteData([g1 EXCEPT !.discoveredMarkers = Append(@, marker),
                                  !.processedMarkers = @ \cup {markerName}],
                       failAt)

RECURSIVE TrackItems(_, _, _, _, _)
TrackItems(g, items, i, defaultType, failAt) ==
    IF i > Len(items) \/ g.thrown THEN g
    ELSE TrackItems(TrackItem(g, items[i], defaultType, failAt), items, i + 1,
                    defaultType, failAt)

\* DriverAid.TrackData branch (taken only when currentPlayerPosition is set)
TrackDataEntry(g, entry, failAt) ==
    LET g1 == IF Has(entry.Values, "lastPlayerPosition")
                 /\ Has(entry.Values.lastPlayerPosition, "height")
              THEN [g EXCEPT !.currentHeight = Some(entry.Values.lastPlayerPosition.height)]
              ELSE g
        g2 == IF Has(entry.Values, "stations")
              THEN TrackItems(g1, entry.Values.stations, 1, "Station", failAt) ELSE g1
    IN IF Has(entry.Values, "markers")
       THEN TrackItems(g2, entry.Values.markers, 1, "Marker", failAt) ELSE g2

\* a JSON value that is a number or a string, and typeof value === 'number'
JsNumber(n) == [number |-> n]
JsString(t) == [string |-> t]
IsNumber(value) == Has(value, "number")

\* one iteration of `for (const entry of rawData.Entries)`; fd is formattedData
ProcessEntry(st, entry, failAt) ==
    LET g == st.g IN
    IF g.thrown \/ ~entry.NodeValid THEN st
    ELSE IF entry.Path = "DriverAid.Data"
      THEN IF ~Has(entry.Values, "gradient") THEN st
           \* entry.Values['gradient'].toFixed(1) on a value that is not a number
           ELSE IF ~IsNumber(entry.Values.gradient) THEN [st EXCEPT !.g.thrown = TRUE]
           ELSE [st EXCEPT !.g.currentGradient = Some(entry.Values.gradient.number)]
    ELSE IF entry.Path = "DriverAid.PlayerInfo"
      THEN [st EXCEPT !.g = PlayerInfoEntry(g, entry, failAt)]
    ELSE IF entry.Path = "DriverAid.TrackData" /\ IsSome(g.currentPlayerPosition)
      THEN [st EXCEPT !.g = TrackDataEntry(g, entry, failAt)]
    ELSE IF entry.Path = "TimeOfDay.Data"
      THEN IF Has(entry.Values, "LocalTimeISO8601")
           THEN [st EXCEPT !.localTime = Some(entry.Values.LocalTimeISO8601)]
           ELSE st
    ELSE st

RECURSIVE ProcessEntries(_, _, _, _)
ProcessEntries(st, entries, i, failAt) ==
    IF i > Len(entries) THEN st
    ELSE ProcessEntries(ProcessEntry(st, entries[i], failAt), entries, i + 1, failAt)

\* FindDistance taking the first entry of the array whatever its name
FindDistance_AnyName(items, target, i) ==
    IF i > Len(items) THEN None
    ELSE IF Has(items[i], "distanceToStationCM")
      THEN Some(RoundCmToMeters(items[i].distanceToStationCM)) ELSE None

\* first station/marker of the array whose stationName is the target: the
\* rounded distance when it carries a number, else nothing
RECURSIVE FindDistance(_, _, _)
FindDistance(items, target, i) ==
    IF i > Len(items) THEN None
    ELSE IF Has(items[i], "stationName") /\ items[i].stationName = target
      THEN IF Has(items[i], "distanceToStationCM")
           THEN Some(RoundCmToMeters(items[i].distanceToStationCM)) ELSE None
    ELSE FindDistance(items, target, i + 1)

\* the distance extraction loop: only the first valid DriverAid.TrackData entry is read
RECURSIVE ExtractDistance(_, _, _)
ExtractDistance(entries, target, i) ==
    IF i > Len(entries) THEN None
    ELSE IF entries[i].Path = "DriverAid.TrackData" /\ entries[i].NodeValid
      THEN LET v == entries[i].Values
               fromStations == IF Has(v, "stations") THEN FindDistance(v.stations, target, 1)
                               ELSE None
           IN IF IsSome(fromStations) THEN fromStations
              ELSE IF Has(v, "markers") THEN FindDistance(v.markers, target, 1)
              ELSE None
    ELSE ExtractDistance(entries, target, i + 1)

\* TargetCheck without `lastDistanceToStation = null`
TargetCheck_NoReset(g, targetApiName) ==
    IF targetApiName # g.lastTargetApiName
    THEN [g EXCEPT !.lastTargetApiName = targetApiName]
    ELSE g

\* the new-target check: a changed target clears the cached distance
TargetCheck(g, targetApiName) ==
    IF targetApiName # g.lastTargetApiName
    THEN [g EXCEPT !.lastTargetApiName = targetApiName, !.lastDistanceToStation = None]
    ELSE g

\* "Calculate timetable display based on current time" to the end of the try block
DisplayPart(st, entries) ==
    IF st.g.thrown \/ ~IsSome(st.localTime) THEN st
    ELSE
      LET timetableDisplay == getTimetableDisplay(st.g.timetableData, st.localTime)
          target == timetableDisplay.targetApiName
          g1 == TargetCheck(st.g, target)
          read == IF IsSome(target) /\ Val(target) # ""
                  THEN ExtractDistance(entries, Val(target), 1) ELSE None
          g2 == IF IsSome(read)
                THEN [g1 EXCEPT !.lastDistanceToStation = read, !.readNow = read]
                ELSE g1
      IN [st EXCEPT !.g = g2,
                    !.timetableTime = timetableDisplay.time,
                    !.timetableLabel = timetableDisplay.label,
                    !.distanceToStation =
                        IF timetableDisplay.showDistance /\ IsSome(g2.lastDistanceToStation)
                        THEN g2.lastDistanceToStation ELSE None]

\* the whole interval callback on a response whose Entries are `entries`
Handler(entries, failAt) ==
    LET st0 == [g |-> Globals, localTime |-> None, timetableTime |-> None,
                timetableLabel |-> None, distanceToStation |-> None]
    IN DisplayPart(ProcessEntries(st0, entries, 1, failAt), entries)

\* the payload written to the viewer
Payload(st) ==
    IF st.g.thrown THEN [error |-> TRUE]
    ELSE [error |-> FALSE, localTime |-> st.localTime, timetableTime |-> st.timetableTime,
          timetableLabel |-> st.timetableLabel, distanceToStation |-> st.distanceToStation]

(***************************************************************************)
(* Inputs of the recorder                                                  *)
(***************************************************************************)
MaxTrace == 3           \* longest trace explored by SpecTrace
MaxRecTrace == 2        \* longest trace explored by SpecRec and SpecHud

Stop(i, dest, arr, dep) ==
    [index |-> i, destination |-> dest, arrival |-> arr, departure |-> dep,
     platform |-> "1", apiName |-> dest \o " 1"]

\* skeleton files as extract.js writes them
SkeletonFile(tt) ==
    [routeName |-> "1Y08", totalPoints |-> 0, totalMarkers |-> 0, requestCount |-> 0,
     coordinates |-> <<>>, markers |-> <<>>, timetable |-> tt]
TimetableOA == << Stop(0, "O", <<8, 0, 0>>, <<8, 0, 0>>), Stop(1, "A", <<8, 10, 0>>, <<>>) >>
TimetableOAB ==
    << Stop(0, "O", <<8, 0, 0>>, <<8, 0, 0>>), Stop(1, "A", <<8, 10, 0>>, <<8, 12, 0>>),
       Stop(2, "B", <<8, 20, 0>>, <<>>) >>

DriverData(values) == [Path |-> "DriverAid.Data", NodeValid |-> TRUE, Values |-> values]
PlayerInfo(values) == [Path |-> "DriverAid.PlayerInfo", NodeValid |-> TRUE, Values |-> values]
TrackData(valid, values) == [Path |-> "DriverAid.TrackData", NodeValid |-> valid, Values |-> values]
TimeOfDay(values) == [Path |-> "TimeOfDay.Data", NodeValid |-> TRUE, Values |-> values]
LocalTime(hms) == [LocalTimeISO8601 |-> [date |-> "2026-01-04", hms |-> hms, frac |-> "000"]]

RecCoords == { [longitude |-> 0, latitude |-> 0], [longitude |-> 1000, latitude |-> 0] }
Item(name, cm) == [stationName |-> name, distanceToStationCM |-> cm]
ItemLists(items) == {<<>>} \cup { <<it>> : it \in items }
TrackValues(stations, markers) ==
    { [stations |-> a, markers |-> b] : a \in ItemLists(stations), b \in ItemLists(markers) }
    \ { [stations |-> <<>>, markers |-> <<>>] }

\* responses: at most two entries, of different subscribed paths, in any order
Snapshots(E) ==
    {<<>>} \cup { <<e>> : e \in E }
           \cup { s \in E \X E : s[1].Path # s[2].Path }

TraceCoords == RecCoords \cup { [longitude |-> 1000, latitude |-> 1000] }
TraceEntries ==
    { PlayerInfo([geoLocation |-> p]) : p \in TraceCoords }
    \cup { PlayerInfo([geoLocation |-> [longitude |-> 0]]) }
    \cup { TrackData(TRUE, [stations |-> <<Item("A 1", 500)>>]) }

RecEntries ==
    { PlayerInfo([geoLocation |-> p]) : p \in RecCoords }
    \cup { PlayerInfo([geoLocation |-> [longitude |-> 0]]) }
    \cup { TrackData(TRUE, v) :
             v \in TrackValues({Item("A 1", 500), Item("A 1", 150000), Item("B 1", 150000)},
                               {Item("A 1", 150000)}) }

HudEntries ==
    { TimeOfDay(LocalTime(t)) : t \in { <<7, 30, 0>>, <<8, 5, 0>>, <<8, 11, 0>>,
                                        <<8, 15, 0>>, <<8, 25, 0>> } }
    \cup { TimeOfDay(<<>>) }
    \cup { TrackData(ok, v) : ok \in BOOLEAN,
             v \in TrackValues({Item("A 1", 120), Item("B 1", 150070)},
                               {Item("A 1", 30040), Item("B 1", 120)}) }

FailAt == {0, 1}

(***************************************************************************)
(* History kept for the claims                                             *)
(***************************************************************************)
\* every distance the response carries for `target`, rounded to metres
RECURSIVE ItemDistances(_, _, _)
ItemDistances(items, target, i) ==
    IF i > Len(items) THEN {}
    ELSE (IF Has(items[i], "stationName") /\ items[i].stationName = target
             /\ Has(items[i], "distanceToStationCM")
          THEN {RoundCmToMeters(items[i].distanceToStationCM)} ELSE {})
         \cup ItemDistances(items, target, i + 1)

DistancesFor(entries, target) ==
    UNION { (IF Has(entries[i].Values, "stations")
             THEN ItemDistances(entries[i].Values.stations, target, 1) ELSE {})
            \cup (IF Has(entries[i].Values, "markers")
                  THEN ItemDistances(entries[i].Values.markers, target, 1) ELSE {})
            : i \in { j \in 1..Len(entries) : entries[j].Path = "DriverAid.TrackData" } }

\* the response carries a position equal to the last appended TracePoint
HasDuplicatePosition(entries) ==
    \E i \in 1..Len(entries) :
        /\ entries[i].Path = "DriverAid.PlayerInfo"
        /\ Has(entries[i].Values, "geoLocation")
        /\ Has(entries[i].Values.geoLocation, "latitude")
        /\ Has(entries[i].Values.geoLocation, "longitude")
        /\ IsSome(lastRouteCoordinate)
        /\ entries[i].Values.geoLocation.latitude = Val(lastRouteCoordinate).latitude
        /\ entries[i].Values.geoLocation.longitude = Val(lastRouteCoordinate).longitude

\* the trace, the markers and the seen-set of a handler state
Recording(g) == [coordinates |-> g.routeCoordinates, markers |-> g.discoveredMarkers,
                 seen |-> g.processedMarkers]

\* an entry whose gradient is present and is not a number
Malformed(entry) ==
    /\ entry.Path = "DriverAid.Data" /\ entry.NodeValid
    /\ Has(entry.Values, "gradient") /\ ~IsNumber(entry.Values.gradient)
WellFormed(entry) == ~Malformed(entry)

NoTick == [evaluated |-> FALSE, duplicate |-> FALSE, target |-> None, prevTarget |-> None,
           prevDistance |-> None, readNow |-> None, validDists |-> {},
           writeFailed |-> FALSE, lost |-> FALSE, isolated |-> None,
           positionOnly |-> FALSE, watched |-> FALSE]
\* the history of a behaviour that also records what the claims about failures
\* and duplicates inside a tick read
WatchedTick == [NoTick EXCEPT !.watched = TRUE]

\* the last four fields are recorded in watched behaviours only;
\* writeFailed: a writeFileSync of the tick threw; lost: the tick then left a
\* recording other than the one the same response leaves when no write throws
TickHistory(st, entries, failAt) ==
    LET writeFailed == tick.watched /\ st.g.thrown /\ failAt > 0 /\ st.g.writes = failAt
        lost == writeFailed /\ Recording(st.g) # Recording(Handler(entries, 0).g)
        \* isolated: what the other entries of a response with a malformed entry
        \* give on their own, when no write is to fail
        isolated == IF tick.watched /\ failAt = 0 /\ \E i \in 1..Len(entries) : Malformed(entries[i])
                    THEN LET alone == Handler(SelectSeq(entries, WellFormed), 0)
                         IN Some([recording |-> Recording(alone.g), payload |-> Payload(alone)])
                    ELSE None
        \* positionOnly: the response holds position samples and nothing else, one
        \* of them at the position of the last TracePoint
        positionOnly == /\ tick.watched
                        /\ HasDuplicatePosition(entries)
                        /\ \A i \in 1..Len(entries) : entries[i].Path = "DriverAid.PlayerInfo"
    IN
    IF st.g.thrown \/ ~IsSome(st.localTime)
    THEN [tick EXCEPT !.evaluated = FALSE, !.readNow = None,
                      !.duplicate = HasDuplicatePosition(entries),
                      !.writeFailed = writeFailed, !.lost = lost,
                      !.isolated = isolated, !.positionOnly = positionOnly]
    ELSE
      LET target == getTimetableDisplay(timetableData, st.localTime).targetApiName
          reads == IF IsSome(target) THEN DistancesFor(entries, Val(target)) ELSE {}
      IN [evaluated |-> TRUE, duplicate |-> HasDuplicatePosition(entries), target |-> target,
          prevTarget |-> tick.target, prevDistance |-> lastDistanceToStation,
          readNow |-> st.g.readNow,
          validDists |-> IF target # tick.target THEN reads ELSE tick.validDists \cup reads,
          writeFailed |-> writeFailed, lost |-> lost, isolated |-> isolated,
          positionOnly |-> positionOnly, watched |-> tick.watched]

(***************************************************************************)
(* Actions of the recording server                                         *)
(***************************************************************************)
InitGlobals(skeletons) ==
    /\ routeCoordinates = <<>>
    /\ lastRouteCoordinate = None
    /\ routeCollectionStartTime = None
    /\ routeCollectionRequestCount = 0
    /\ discoveredMarkers = <<>>
    /\ processedMarkers = {}
    /\ currentPlayerPosition = None
    /\ currentGradient = None
    /\ currentHeight = None
    /\ routeOutputFilePath = None
    /\ timetableData = <<>>
    /\ lastDistanceToStation = None
    /\ lastTargetApiName = None
    /\ skeleton \in skeletons
    /\ routeFile = skeleton
    /\ intervals = {}
    /\ emitted = None

InitRecorder(skeletons) == InitGlobals(skeletons) /\ tick = NoTick
InitWatched(skeletons) == InitGlobals(skeletons) /\ tick = WatchedTick

\* initializeRouteFile(): use the skeleton and its timetable, or a fresh file name
initializeRouteFile ==
    /\ routeOutputFilePath' = IF IsSome(skeleton) THEN Some("skeleton") ELSE Some("fresh")
    /\ timetableData' = IF IsSome(skeleton) /\ Has(Val(skeleton), "timetable")
                        THEN Val(skeleton).timetable ELSE timetableData

\* Connect starting the recording over for every viewer
Connect_StartsOver(v) ==
    /\ v \notin intervals
    /\ intervals' = intervals \cup {v}
    /\ routeCollectionStartTime' = Some("started")
    /\ initializeRouteFile
    /\ routeCoordinates' = <<>>
    /\ lastRouteCoordinate' = None
    /\ discoveredMarkers' = <<>>
    /\ processedMarkers' = {}
    /\ UNCHANGED <<routeCollectionRequestCount, currentPlayerPosition,
                   currentGradient, currentHeight, lastDistanceToStation,
                   lastTargetApiName, routeFile, skeleton, emitted, tick>>

\* a viewer opens /stream: the first one starts the recording, every one gets a timer
Connect(v) ==
    /\ v \notin intervals
    /\ intervals' = intervals \cup {v}
    /\ IF routeCollectionStartTime = None
       THEN routeCollectionStartTime' = Some("started") /\ initializeRouteFile
       ELSE UNCHANGED <<routeCollectionStartTime, routeOutputFilePath, timetableData>>
    /\ UNCHANGED <<routeCoordinates, lastRouteCoordinate, routeCollectionRequestCount,
                   discoveredMarkers, processedMarkers, currentPlayerPosition,
                   currentGradient, currentHeight, lastDistanceToStation,
                   lastTargetApiName, routeFile, skeleton, emitted, tick>>

\* Close clearing every viewer's timer
Close_StopsAll(v) ==
    /\ v \in intervals
    /\ intervals' = {}
    /\ UNCHANGED <<routeCoordinates, lastRouteCoordinate, routeCollectionStartTime,
                   routeCollectionRequestCount, discoveredMarkers, processedMarkers,
                   currentPlayerPosition, currentGradient, currentHeight,
                   routeOutputFilePath, timetableData, lastDistanceToStation,
                   lastTargetApiName, routeFile, skeleton, emitted, tick>>

\* req 'close': clearInterval
Close(v) ==
    /\ v \in intervals
    /\ intervals' = intervals \ {v}
    /\ UNCHANGED <<routeCoordinates, lastRouteCoordinate, routeCollectionStartTime,
                   routeCollectionRequestCount, discoveredMarkers, processedMarkers,
                   currentPlayerPosition, currentGradient, currentHeight,
                   routeOutputFilePath, timetableData, lastDistanceToStation,
                   lastTargetApiName, routeFile, skeleton, emitted, tick>>

\* the interval callback handles the response `entries`
Handle(entries, failAt, maxTrace) ==
    /\ \E st \in {Handler(entries, failAt)} :
       /\ Len(st.g.routeCoordinates) <= maxTrace
       /\ routeCoordinates' = st.g.routeCoordinates
       /\ lastRouteCoordinate' = st.g.lastRouteCoordinate
       /\ routeCollectionRequestCount' = st.g.routeCollectionRequestCount
       /\ discoveredMarkers' = st.g.discoveredMarkers
       /\ processedMarkers' = st.g.processedMarkers
       /\ currentPlayerPosition' = st.g.currentPlayerPosition
       /\ currentGradient' = st.g.currentGradient
       /\ currentHeight' = st.g.currentHeight
       /\ lastDistanceToStation' = st.g.lastDistanceToStation
       /\ lastTargetApiName' = st.g.lastTargetApiName
       /\ routeFile' = st.g.routeFile
       /\ emitted' = Some(Payload(st))
       /\ tick' = TickHistory(st, entries, failAt)
    /\ UNCHANGED <<routeCollectionStartTime, routeOutputFilePath, timetableData,
                   skeleton, intervals>>

\* a viewer's timer fires and the response `entries` is handled
Tick(v, entries, failAt, maxTrace) ==
    /\ v \in intervals
    /\ Handle(entries, failAt, maxTrace)

NextRecorder(viewers, snapshots, maxTrace) ==
    \/ \E v \in viewers : Connect(v)
    \/ \E v \in viewers : Close(v)
    \/ \E v \in viewers, entries \in snapshots, failAt \in FailAt :
          Tick(v, entries, failAt, maxTrace)

\* the server process ends and is started again: cleanup() saves once more on
\* SIGINT / SIGTERM (graceful), the globals get their initial values, and the
\* file of the last run is what initializeRouteFile finds in unprocessed_routes/
Restart(graceful) ==
    /\ IsSome(routeOutputFilePath)
    /\ \E g \in {IF graceful /\ Len(routeCoordinates) > 0
                  THEN saveRouteData(Globals, 0) ELSE Globals} :
         /\ routeFile' = g.routeFile
         /\ skeleton' = g.routeFile
    /\ routeCoordinates' = <<>>
    /\ lastRouteCoordinate' = None
    /\ routeCollectionStartTime' = None
    /\ routeCollectionRequestCount' = 0
    /\ discoveredMarkers' = <<>>
    /\ processedMarkers' = {}
    /\ currentPlayerPosition' = None
    /\ currentGradient' = None
    /\ currentHeight' = None
    /\ routeOutputFilePath' = None
    /\ timetableData' = <<>>
    /\ lastDistanceToStation' = None
    /\ lastTargetApiName' = None
    /\ intervals' = {}
    /\ emitted' = None
    /\ tick' = [NoTick EXCEPT !.watched = tick.watched]

(***************************************************************************)
(* The resolver run on a recording, then run again on its own output       *)
(***************************************************************************)
VARIABLES
    resInput,      \* the parsed input file
    resStage,      \* "raw", "resolved" (processRouteFile ran), "again" (it ran on its output)
    resRun,        \* the last run of processRouteFile: its input and its result
    resFile        \* null or the content of the output file

resVars == <<resInput, resStage, resRun, resFile>>

MaxPolyline == 3        \* longest polyline given to the resolver
MaxRoute == 3           \* longest polyline loaded by the projector

Point(lat, lon) == [latitude |-> lat, longitude |-> lon]
GridPoints == { Point(0, 0), Point(0, 1000), Point(0, 2000), Point(1000, 1000) }

RECURSIVE SeqsUpTo(_, _)
SeqsUpTo(S, n) ==
    IF n = 0 THEN {<<>>}
    ELSE SeqsUpTo(S, n - 1) \cup { Append(q, x) : q \in SeqsUpTo(S, n - 1), x \in S }

Polylines == SeqsUpTo(GridPoints, MaxPolyline)

\* raw markers as the recorder writes them: a detection, or nothing usable, and
\* possibly on-spot fields
BareMarker(name) == [stationName |-> name, markerType |-> "Station"]
WithDetection(m, p, d) ==
    Put(Put(Put(m, "detectedAt", [longitude |-> p.longitude, latitude |-> p.latitude]),
            "distanceAheadMeters", d), "timestamp", "then")
WithOnspot(m, p, d) ==
    Put(Put(Put(Put(m, "onspot_latitude", p.latitude), "onspot_longitude", p.longitude),
            "onspot_timestamp", "then"), "spoton_distance", d)

DetectionPoints == { Point(0, 0), Point(0, 1000), Point(1000, 1000) }
OnspotPoints == { Point(0, 0), Point(0, 1000), Point(1000, 0), Point(1000, 1000) }

RawMarkers(name) ==
    LET detected == { BareMarker(name) }
                    \cup { WithDetection(BareMarker(name), p, Some(15000)) : p \in DetectionPoints }
    IN detected \cup { WithOnspot(m, p, 500) : m \in detected, p \in OnspotPoints }

MarkerLists ==
    {<<>>} \cup { <<m>> : m \in RawMarkers("A 1") }
           \cup { <<m, WithDetection(BareMarker("B 1"), Point(1000, 1000), Some(30000))>> :
                    m \in RawMarkers("A 1") }

RecordingFile(coordinates, markers) ==
    [routeName |-> "1Y08", totalPoints |-> Len(coordinates), totalMarkers |-> Len(markers),
     requestCount |-> Len(coordinates), coordinates |-> coordinates, markers |-> markers]

InputFiles ==
    { RecordingFile(c, m) : c \in Polylines, m \in MarkerLists }
    \cup { Put(RecordingFile(c, m), "timetable", TimetableOA) : c \in Polylines, m \in MarkerLists }

\* what save/current_timetable holds when the resolver runs
CsvTimetables == { <<>>, TimetableOA }

InitResolver(inputs) ==
    /\ resInput \in inputs
    /\ resStage = "raw"
    /\ resRun = None
    /\ resFile = None

\* node process_trip.js <recording>: the output file is written on success
Resolve(csv) ==
    /\ resStage = "raw"
    /\ \E r \in {processRouteFile(resInput, csv)} :
         /\ resRun' = Some([input |-> resInput, csv |-> csv, result |-> r])
         /\ resFile' = IF r.written THEN Some(r.output) ELSE resFile
    /\ resStage' = "resolved"
    /\ UNCHANGED resInput

\* node process_trip.js <output of the first run>: input and output are the same file
ResolveAgain(csv) ==
    /\ resStage = "resolved"
    /\ IsSome(resFile)
    /\ \E r \in {processRouteFile(Val(resFile), csv)} :
         /\ resRun' = Some([input |-> Val(resFile), csv |-> csv, result |-> r])
         /\ resFile' = IF r.written THEN Some(r.output) ELSE resFile
    /\ resStage' = "again"
    /\ UNCHANGED resInput

NextResolver ==
    \/ \E csv \in CsvTimetables : Resolve(csv)
    \/ \E csv \in CsvTimetables : ResolveAgain(csv)

(***************************************************************************)
(* The projector on a loaded route                                         *)
(***************************************************************************)
RoutePoints == { Point(0, 0), Point(0, 1000), Point(1000, 1000) }
QueryPoints == { Point(0, 0), Point(500, 1000), Point(1000, 1000) }
Routes ==
    { [routeName |-> "1Y08", coordinates |-> c] : c \in SeqsUpTo(RoutePoints, MaxRoute) }
    \cup { [routeName |-> "1Y08"] }

InitProjector ==
    /\ loadedRouteData = None
    /\ projection = None
    /\ prevProjection = None

\* load-route: the selected file becomes the loaded route
LoadRoute(route) ==
    /\ loadedRouteData' = Some(route)
    /\ projection' = None
    /\ prevProjection' = None

\* one call of calculateDistanceAlongRoute with a live position and a marker
\* position; resolverIndex is the resolver's search on the same polyline and
\* live position
Project(player, marker) ==
    /\ projection' =
         Some([player |-> player, marker |-> marker,
               playerIndex |-> findNearestRouteIndex(player.latitude, player.longitude),
               markerIndex |-> findNearestRouteIndex(marker.latitude, marker.longitude),
               resolverIndex |->
                   IF HasPolyline
                   THEN findNearestCoordinateIndex(Val(loadedRouteData).coordinates,
                                                   player.latitude, player.longitude)
                   ELSE -1,
               distance |-> calculateDistanceAlongRoute(player.latitude, player.longitude,
                                                        marker.latitude, marker.longitude)])
    /\ prevProjection' = projection
    /\ UNCHANGED loadedRouteData

NextProjector ==
    \/ \E route \in Routes : LoadRoute(route)
    \/ \E player \in QueryPoints, marker \in QueryPoints : Project(player, marker)

(***************************************************************************)
(* The tracker on timetables and times of day                              *)
(***************************************************************************)
VARIABLES
    trkTimetable,   \* timetableData
    trkTime,        \* the local time of the response
    trkDisplay,     \* null or the displays computed for them by the two servers
    trkTargets      \* the indices of the stops that were the target, in the order
                    \* in which the target changed

trkVars == <<trkTimetable, trkTime, trkDisplay, trkTargets>>

MaxStops == 3           \* longest timetable given to the tracker

\* times of a stop: none, midnight, and two times of the morning
StopTimes == { <<>>, <<0, 0, 0>>, <<8, 0, 0>>, <<8, 10, 0>> }
ClockTimes == { <<0, 0, 0>>, <<7, 30, 0>>, <<8, 0, 0>>, <<8, 5, 0>>, <<8, 10, 0>>, <<8, 15, 0>> }
StopNames == << "O", "A", "B", "C" >>

RECURSIVE Timetables(_)
Timetables(n) ==
    IF n = 0 THEN {<<>>}
    ELSE Timetables(n - 1)
         \cup { Append(tt, Stop(Len(tt), StopNames[((Len(tt)) % 4) + 1], arr, dep)) :
                  tt \in { t \in Timetables(n - 1) : Len(t) = n - 1 },
                  arr \in StopTimes, dep \in StopTimes }

Seconds(t) == t[1] * 3600 + t[2] * 60 + t[3]
HasTime(t) == t # <<>>

\* the k-th time of the timetable in stop order: arrival then departure of each stop
TimeAt(tt, k) == IF k % 2 = 1 THEN tt[(k + 1) \div 2].arrival ELSE tt[k \div 2].departure

\* the times the timetable gives are non-decreasing in stop order
NonDecreasing(tt) ==
    \A k1, k2 \in 1..(2 * Len(tt)) :
        (k1 < k2 /\ HasTime(TimeAt(tt, k1)) /\ HasTime(TimeAt(tt, k2)))
            => Seconds(TimeAt(tt, k1)) <= Seconds(TimeAt(tt, k2))

InitTracker(timetables, times) ==
    /\ trkTimetable \in timetables
    /\ trkTime \in times
    /\ trkDisplay = None
    /\ trkTargets = <<>>

\* the index of the stop whose apiName is the display's target, 0 when the
\* target is no stop of the timetable
TargetIndex(tt, display) ==
    LET stops == { i \in 1..Len(tt) : tt[i].apiName = Val(display.targetApiName) }
    IN IF stops = {} THEN 0 ELSE CHOOSE i \in stops : TRUE

\* the targets so far, with the target of `display` added when it is a new one
Targeted(tt, targets, display) ==
    IF ~IsSome(display.targetApiName) THEN targets
    ELSE IF targets # <<>> /\ targets[Len(targets)] = TargetIndex(tt, display) THEN targets
    ELSE Append(targets, TargetIndex(tt, display))

\* one evaluation of the display by each server
Evaluate ==
    /\ trkDisplay = None
    /\ \E now \in {Some(LocalTime(trkTime).LocalTimeISO8601)} :
         /\ trkDisplay' = Some([recorder |-> getTimetableDisplay(trkTimetable, now),
                                playback |-> getTimetableDisplayPlayback(trkTimetable, now)])
         /\ trkTargets' = Targeted(trkTimetable, trkTargets,
                                   getTimetableDisplay(trkTimetable, now))
    /\ UNCHANGED <<trkTimetable, trkTime>>

\* the time of day of the simulation is later at the next tick
LaterTick(time) ==
    /\ trkDisplay # None
    /\ Seconds(time) > Seconds(trkTime)
    /\ trkTime' = time
    /\ trkDisplay' = None
    /\ UNCHANGED <<trkTimetable, trkTargets>>

NextTracker == Evaluate

(***************************************************************************)
(* The playback server's distance to the next timetable marker             *)
(***************************************************************************)
VARIABLES
    playTick        \* null or the last tick's target, live position and distanceToStation

playVars == <<playTick>>

\* marker.latitude || marker.detectedAt?.latitude (likewise longitude): None is undefined
ResolvedOrDetected(marker, f) ==
    IF TruthyNum(marker, f) THEN Some(marker[f])
    ELSE IF Has(marker, "detectedAt") /\ Has(marker.detectedAt, f)
      THEN Some(marker.detectedAt[f])
    ELSE None

\* getNextTimetableMarker(targetApiName): None is null
getNextTimetableMarker(targetApiName) ==
    IF ~IsSome(targetApiName) \/ Val(targetApiName) = ""
       \/ ~IsSome(loadedRouteData) \/ ~Has(Val(loadedRouteData), "markers")
    THEN None
    ELSE
      LET markers == Val(loadedRouteData).markers
          k == SeqIndexOf(markers, Val(targetApiName), 1)
      IN IF k = 0 THEN None
         ELSE Some([name |-> markers[k].stationName,
                    latitude |-> ResolvedOrDetected(markers[k], "latitude"),
                    longitude |-> ResolvedOrDetected(markers[k], "longitude"),
                    type |-> markers[k].markerType])

\* "Calculate distance along route to next marker": the value of
\* streamData.distanceToStation, which starts as null
StreamDistance(targetApiName, position) ==
    IF ~(IsSome(targetApiName) /\ Val(targetApiName) # "" /\ IsSome(position)) THEN None
    ELSE
      LET nextMarker == getNextTimetableMarker(targetApiName) IN
      IF ~(IsSome(nextMarker) /\ TruthyOpt(Val(nextMarker).latitude)
           /\ TruthyOpt(Val(nextMarker).longitude))
      THEN None
      ELSE
        LET distance == calculateDistanceAlongRoute(Val(position).latitude,
                                                    Val(position).longitude,
                                                    Val(Val(nextMarker).latitude),
                                                    Val(Val(nextMarker).longitude))
        IN IF IsSome(distance) THEN Some(RoundCmToMeters(Val(distance))) ELSE None

\* route files offered to the playback server
PlayPolyline == << Point(1000, 1000), Point(1000, 2000), Point(1000, 3000) >>
PlayMarker == [stationName |-> "A 1", markerType |-> "Station", isTimetableStation |-> TRUE]
PlayMarkerLists ==
    { <<>>,
      << PlayMarker >>,
      << Put(Put(PlayMarker, "latitude", 1000), "longitude", 3000) >>,
      << Put(Put(PlayMarker, "latitude", 1000), "longitude", 1000) >>,
      << Del(WithDetection(PlayMarker, Point(1000, 2000), Some(15000)),
             {"isTimetableStation"}) >> }
PlayRoutes ==
    LET base == [routeName |-> "1Y08", timetable |-> TimetableOA] IN
    { base, Put(base, "coordinates", <<>>), Put(base, "coordinates", PlayPolyline) }
    \cup { Put(base, "markers", m) : m \in PlayMarkerLists }
    \cup { Put(Put(base, "coordinates", c), "markers", m) :
              c \in { <<>>, PlayPolyline }, m \in PlayMarkerLists }
PlayTargets == { None, Some("A 1"), Some("B 1") }
PlayPositions == { None, Some(Point(1000, 1000)), Some(Point(1000, 2000)), Some(Point(1000, 3000)) }

InitPlay == playTick = None

\* the distance part of one tick of the playback stream
StreamTick(targetApiName, position) ==
    /\ playTick' = Some([target |-> targetApiName, position |-> position,
                         distanceToStation |-> StreamDistance(targetApiName, position)])
    /\ UNCHANGED projVars

NextPlay ==
    \/ \E route \in PlayRoutes : LoadRoute(route) /\ playTick' = None
    \/ \E targetApiName \in PlayTargets, position \in PlayPositions :
          StreamTick(targetApiName, position)

(***************************************************************************)
(* The walk along the polyline on its own                                  *)
(***************************************************************************)
VARIABLES
    walkArgs,       \* the arguments of followRoutePath
    walkResult      \* null or the position it returned

walkVars == <<walkArgs, walkResult>>

\* distances of the walk, in centimetres: none, inside the first segment, one
\* segment, between one and two segments, more than two segments
WalkDistances == { 0, 500, calculateDistance(0, 0, 0, 1000), 15000, 30000 }
WalkArguments(polylines) ==
    { [coordinates |-> c, startIndex |-> st, distanceMeters |-> d] :
         c \in polylines, st \in 0..(MaxPolyline - 1), d \in WalkDistances }

InitWalk(polylines) ==
    /\ walkArgs \in { a \in WalkArguments(polylines) : a.startIndex < Len(a.coordinates) }
    /\ walkResult = None

\* one call of followRoutePath
Walk ==
    /\ walkResult = None
    /\ walkResult' = Some(followRoutePath(walkArgs.coordinates, walkArgs.startIndex,
                                          Some(walkArgs.distanceMeters)))
    /\ UNCHANGED walkArgs

NextWalk == Walk

(***************************************************************************)
(* Recordings with every field the recorder writes                         *)
(***************************************************************************)
\* a marker as the stations loop or the markers loop creates it; the distance
\* ahead is null when the response carried no distance
CreatedMarkers(name) ==
    LET created == { WithDetection([stationName |-> name, markerType |-> kind], p, d) :
                        kind \in {"Station", "Marker"},
                        p \in { Point(0, 0), Point(1000, 1000) },
                        d \in { Some(15000), None } }
    IN created \cup { Put(m, "platformLength", 22000) : m \in created }

\* the markers of a recording: created, and possibly passed afterwards
RecordedMarkers(name) ==
    CreatedMarkers(name)
    \cup { WithOnspot(m, Point(1000, 2000), 500) :
              m \in { c \in CreatedMarkers(name) : c.markerType = "Station" } }

RecordedMarkerLists ==
    {<<>>} \cup { <<m>> : m \in RecordedMarkers("A 1") }
           \cup { <<m, n>> : m \in RecordedMarkers("A 1"),
                             n \in { c \in CreatedMarkers("B 1") :
                                        c.markerType = "Marker" /\ c.detectedAt.latitude # 0 } }

RecordedFiles ==
    { RecordingFile(c, m) : c \in { << Point(1000, 1000) >>, PlayPolyline },
                            m \in RecordedMarkerLists }
    \cup { Put(RecordingFile(PlayPolyline, m), "timetable", TimetableOA) :
              m \in RecordedMarkerLists }

(***************************************************************************)
(* Polling: the timers of the viewers, the requests in flight              *)
(***************************************************************************)
VARIABLES
    source,      \* how far the train has moved: the index of its current position
    inflight,    \* the requests awaiting axios.request: who asked, what the source sampled
    fires,       \* how often each viewer's timer has fired
    event        \* the last event of the server

pollVars == <<source, inflight, fires, event>>

MaxFires == 2       \* firings of one viewer's timer
MaxInflight == 2    \* requests awaiting their response at one time

Viewers == {1, 2}
\* the positions the telemetry source reports as the train moves
SourcePositions == << [longitude |-> 0, latitude |-> 0], [longitude |-> 1000, latitude |-> 0],
                      [longitude |-> 2000, latitude |-> 0] >>

InitPoll ==
    /\ source = 1
    /\ inflight = {}
    /\ fires = [v \in Viewers |-> 0]
    /\ event = [kind |-> "start", viewer |-> 0]

\* a viewer opens /stream
Open(v) ==
    /\ Connect(v)
    /\ event' = [kind |-> "connect", viewer |-> v]
    /\ UNCHANGED <<source, inflight, fires>>

\* the viewer's connection emits 'close'
Disconnect(v) ==
    /\ Close(v)
    /\ event' = [kind |-> "close", viewer |-> v]
    /\ UNCHANGED <<source, inflight, fires>>

\* setInterval fires the callback, which sends its request and awaits the response;
\* the source answers with the position the train has at that time
Fire(v) ==
    /\ v \in intervals
    /\ fires[v] < MaxFires
    /\ Cardinality(inflight) < MaxInflight
    /\ fires' = [fires EXCEPT ![v] = @ + 1]
    /\ inflight' = inflight \cup {[viewer |-> v, sample |-> source]}
    /\ event' = [kind |-> "fire", viewer |-> v]
    /\ UNCHANGED <<recVars, source>>

\* a response arrives and the callback resumes after its await; nothing orders
\* the responses of different requests
Deliver(r) ==
    /\ r \in inflight
    /\ inflight' = inflight \ {r}
    /\ Handle(<< PlayerInfo([geoLocation |-> SourcePositions[r.sample]]) >>, 0, MaxTrace)
    /\ event' = [kind |-> "response", viewer |-> r.viewer]
    /\ UNCHANGED <<source, fires>>

\* the train moves on
Advance ==
    /\ source < Len(SourcePositions)
    /\ source' = source + 1
    /\ event' = [kind |-> "advance", viewer |-> 0]
    /\ UNCHANGED <<recVars, inflight, fires>>

NextPoll ==
    \/ \E v \in Viewers : Open(v)
    \/ \E v \in Viewers : Disconnect(v)
    \/ \E v \in Viewers : Fire(v)
    \/ \E r \in inflight : Deliver(r)
    \/ Advance

(***************************************************************************)
(* The resolver in --all mode                                              *)
(***************************************************************************)
VARIABLES
    files,             \* the route files found in unprocessed_routes/: parsed content, or
                       \* null for a file that cannot be read or parsed
    fileIndex,         \* how many files the loop has handled
    processedCount,
    skippedCount,
    errorCount,
    processedDir,      \* the files written to processed_routes/, by index
    argv,              \* process.argv.slice(2)
    mode               \* where main is: "start", "usage", "all", "single"

batchVars == <<files, fileIndex, processedCount, skippedCount, errorCount, processedDir,
               argv, mode>>

MaxFiles == 3

\* processRouteFile(inputPath, outputPath) from the file on disk, no CSV timetable
ProcessFile(content) ==
    IF ~IsSome(content) THEN [thrown |-> TRUE, written |-> FALSE, output |-> <<>>]
    ELSE processRouteFile(Val(content), <<>>)

BatchPolyline == << Point(1000, 1000), Point(1000, 2000) >>
RouteFileContents ==
    { None,
      Some(RecordingFile(<<>>, <<>>)),
      Some(Del(RecordingFile(<<>>, <<>>), {"coordinates"})),
      Some(RecordingFile(BatchPolyline, <<>>)),
      Some(RecordingFile(BatchPolyline,
                         << WithDetection(BareMarker("A 1"), Point(1000, 1000), Some(50000)) >>)) }
RouteDirectories == SeqsUpTo(RouteFileContents, MaxFiles) \ {<<>>}

\* command-line words: a flag starts with "--"
Flag(name) == [dashes |-> TRUE, name |-> name]
Arg(name) == [dashes |-> FALSE, name |-> name]
CommandLines ==
    { << Flag("all") >>, << Arg("route_1Y08.json"), Flag("all") >>,
      << Flag("all"), Flag("force") >>, << Arg("route_1Y08.json") >>, <<>> }

InitBatch(directories, commandLines) ==
    /\ argv \in commandLines
    /\ mode = "start"
    /\ files \in directories
    /\ fileIndex = 0
    /\ processedCount = 0
    /\ skippedCount = 0
    /\ errorCount = 0
    /\ processedDir = {}

IsFlag(word) == word.dashes
IsArg(word) == ~word.dashes

\* main() up to the choice of the mode
main ==
    /\ mode = "start"
    /\ LET args == SelectSeq(argv, IsArg)
           flags == SelectSeq(argv, IsFlag)
       IN mode' = IF Len(args) = 0 THEN "usage"
                  ELSE IF args[1] = Flag("all")
                          \/ \E k \in 1..Len(flags) : flags[k] = Flag("all")
                       THEN "all"
                  ELSE "single"
    /\ UNCHANGED <<files, fileIndex, processedCount, skippedCount, errorCount, processedDir,
                   argv>>

\* the loop stopping at the first file that throws
ProcessNextFile_AbortOnError ==
    /\ mode = "all"
    /\ fileIndex < Len(files)
    /\ \E r \in {ProcessFile(files[fileIndex + 1])} :
         /\ processedCount' = IF ~r.thrown /\ r.written THEN processedCount + 1
                               ELSE processedCount
         /\ skippedCount' = IF ~r.thrown /\ ~r.written THEN skippedCount + 1
                             ELSE skippedCount
         /\ errorCount' = IF r.thrown THEN errorCount + 1 ELSE errorCount
         /\ processedDir' = IF ~r.thrown /\ r.written
                             THEN processedDir \cup {fileIndex + 1} ELSE processedDir
         /\ fileIndex' = IF r.thrown THEN Len(files) ELSE fileIndex + 1
    /\ UNCHANGED <<files, argv, mode>>

\* one iteration of `for (const file of files)`
ProcessNextFile ==
    /\ mode = "all"
    /\ fileIndex < Len(files)
    /\ \E r \in {ProcessFile(files[fileIndex + 1])} :
         /\ processedCount' = IF ~r.thrown /\ r.written THEN processedCount + 1
                               ELSE processedCount
         /\ skippedCount' = IF ~r.thrown /\ ~r.written THEN skippedCount + 1
                             ELSE skippedCount
         /\ errorCount' = IF r.thrown THEN errorCount + 1 ELSE errorCount
         /\ processedDir' = IF ~r.thrown /\ r.written
                             THEN processedDir \cup {fileIndex + 1} ELSE processedDir
         /\ fileIndex' = fileIndex + 1
    /\ UNCHANGED <<files, argv, mode>>

NextBatch == main \/ ProcessNextFile

(***************************************************************************)
(* Startup of the recording server: the API key, the subscriptions, listen *)
(***************************************************************************)
VARIABLES
    keyFile,      \* CommAPIKey.txt: null when missing, else its characters
    apiKey,       \* the module's apiKey, '' at start
    startup,      \* where the startup chain is
    endpoint,     \* how many subscription endpoints createSubscriptions has handled
    requests,     \* the kinds of request sent to the telemetry source so far
    waits         \* failed reads of the key file (counted up to MaxWaits)

keyVars == <<keyFile, apiKey, startup, endpoint, requests, waits>>

MaxWaits == 2
SubscriptionEndpoints == 18

Whitespace == {" ", "\n"}
\* String.prototype.trim() on a sequence of characters
RECURSIVE TrimStart(_)
TrimStart(chars) ==
    IF Len(chars) > 0 /\ Head(chars) \in Whitespace THEN TrimStart(Tail(chars)) ELSE chars
RECURSIVE TrimEnd(_)
TrimEnd(chars) ==
    IF Len(chars) > 0 /\ chars[Len(chars)] \in Whitespace
    THEN TrimEnd(SubSeq(chars, 1, Len(chars) - 1)) ELSE chars
Trim(chars) == TrimEnd(TrimStart(chars))

KeyFileContents ==
    { None, Some(<<>>), Some(<< " ", "\n" >>), Some(<< "k", "e", "y" >>),
      Some(<< " ", "k", "e", "y", "\n" >>) }

InitKey(contents) ==
    /\ keyFile \in contents
    /\ apiKey = <<>>
    /\ startup = "reading"
    /\ endpoint = 0
    /\ requests = {}
    /\ waits = 0

\* the game, or the user, writes or removes the key file
WriteKeyFile(content) ==
    /\ keyFile # content
    /\ keyFile' = content
    /\ UNCHANGED <<apiKey, startup, endpoint, requests, waits>>

\* ReadKey starting the server without a key when the read fails
ReadKey_GiveUp ==
    /\ startup = "reading"
    /\ IF IsSome(keyFile) /\ Trim(Val(keyFile)) # <<>>
       THEN apiKey' = Trim(Val(keyFile)) /\ UNCHANGED waits
       ELSE waits' = (IF waits < MaxWaits THEN waits + 1 ELSE waits) /\ UNCHANGED apiKey
    /\ startup' = "deleting"
    /\ UNCHANGED <<keyFile, endpoint, requests>>

\* one iteration of the while loop of waitForValidApiKey, up to the return or the sleep
ReadKey ==
    /\ startup = "reading"
    /\ IF IsSome(keyFile) /\ Trim(Val(keyFile)) # <<>>
       THEN apiKey' = Trim(Val(keyFile)) /\ startup' = "deleting" /\ UNCHANGED waits
       ELSE /\ startup' = "sleeping"
            /\ waits' = (IF waits < MaxWaits THEN waits + 1 ELSE waits)
            /\ UNCHANGED apiKey
    /\ UNCHANGED <<keyFile, endpoint, requests>>

\* await sleep(3000) ends
Wake ==
    /\ startup = "sleeping"
    /\ startup' = "reading"
    /\ UNCHANGED <<keyFile, apiKey, endpoint, requests, waits>>

\* deleteSubscription(): the request succeeds or fails, the failure is caught
deleteSubscription ==
    /\ startup = "deleting"
    /\ requests' = requests \cup {"delete"}
    /\ startup' = "pausing"
    /\ UNCHANGED <<keyFile, apiKey, endpoint, waits>>

\* sleep(500) ends and createSubscriptions() starts
Pause ==
    /\ startup = "pausing"
    /\ startup' = "creating"
    /\ UNCHANGED <<keyFile, apiKey, endpoint, requests, waits>>

\* one iteration of the loop of createSubscriptions(): a failure is caught
createSubscription ==
    /\ startup = "creating"
    /\ endpoint < SubscriptionEndpoints
    /\ requests' = requests \cup {"post"}
    /\ endpoint' = endpoint + 1
    /\ UNCHANGED <<keyFile, apiKey, startup, waits>>

\* server.listen(port)
Listen ==
    /\ startup = "creating"
    /\ endpoint = SubscriptionEndpoints
    /\ startup' = "listening"
    /\ UNCHANGED <<keyFile, apiKey, endpoint, requests, waits>>

\* a viewer's timer polls the subscription feed; viewers connect to a listening server
Poll ==
    /\ startup = "listening"
    /\ "get" \notin requests
    /\ requests' = requests \cup {"get"}
    /\ UNCHANGED <<keyFile, apiKey, startup, endpoint, waits>>

StartupStep ==
    ReadKey \/ Wake \/ deleteSubscription \/ Pause \/ createSubscription \/ Listen

NextKey ==
    \/ StartupStep
    \/ Poll
    \/ \E content \in KeyFileContents : WriteKeyFile(content)

(***************************************************************************)
(* The recorder with the response of each tick kept for inspection         *)
(***************************************************************************)
VARIABLES
    snapshot,     \* the Entries of the response handled last (history)
    joined        \* null or what the recording held when the last viewer
                  \* connected (history)

obsVars == <<snapshot, joined>>

InitObserve == snapshot = <<>> /\ joined = None

\* a viewer's timer fires and the response is handled, every write succeeding
Respond(v, entries, maxTrace) ==
    /\ Tick(v, entries, 0, maxTrace)
    /\ snapshot' = entries
    /\ UNCHANGED joined

NextObserve(viewers, snapshots, maxTrace) ==
    \/ \E v \in viewers : Connect(v) /\ UNCHANGED obsVars
    \/ \E v \in viewers : Close(v) /\ UNCHANGED obsVars
    \/ \E v \in viewers, entries \in snapshots : Respond(v, entries, maxTrace)

\* a viewer opens /stream, and what the recording holds at that time is kept
Join(v) ==
    /\ Connect(v)
    /\ joined' = Some([viewer |-> v, started |-> routeCollectionStartTime # None,
                       points |-> Len(routeCoordinates),
                       markers |-> Len(discoveredMarkers)])
    /\ UNCHANGED snapshot

NextViewers(viewers, snapshots, maxTrace) ==
    \/ \E v \in viewers : Join(v)
    \/ \E v \in viewers : Close(v) /\ UNCHANGED obsVars
    \/ \E v \in viewers, entries \in snapshots, failAt \in FailAt :
          Tick(v, entries, failAt, maxTrace) /\ UNCHANGED obsVars

(***************************************************************************)
(* Route switch in the playback server: /api/load-route, /api/upload-route *)
(***************************************************************************)
VARIABLES
    routeFilePath,          \* null or the path of the loaded route
    playbackTimetableData,  \* timetableData of the playback server
    served                  \* the status of the last response, and a bit that
                            \* flips with every request (history)

switchVars == <<routeFilePath, playbackTimetableData, served>>

\* the text of a file or of a request body, as JSON.parse sees it
Unparsable == [parse |-> "SyntaxError"]
JsonNull == [parse |-> "null"]
JsonObject(value) == [parse |-> "object", value |-> value]

SwitchRoutes ==
    LET base == [routeName |-> "1Y08", coordinates |-> PlayPolyline] IN
    { base, Put(base, "timetable", <<>>), Put(base, "timetable", TimetableOA),
      Put(base, "timetable", TimetableOAB),
      Del(Put(base, "timetable", TimetableOA), {"coordinates"}),
      [Put(base, "timetable", TimetableOAB) EXCEPT !.routeName = ""] }

\* the `path` parameter of a load-route request: absent, inside or outside the
\* server's directory
RoutePaths == { None, Some("processed_routes/route_a.json"),
                Some("processed_routes/route_b.json"), Some("../route_c.json") }
Inside(path) == path # "../route_c.json"

\* what the file system holds at the path: nothing, or a text
RouteFiles == { None, Some(Unparsable), Some(JsonNull) }
              \cup { Some(JsonObject(route)) : route \in SwitchRoutes }

\* bodies of an upload-route request
UploadBodies ==
    { Unparsable, JsonNull, JsonObject([filename |-> "route_d.json"]) }
    \cup { JsonObject([filename |-> "route_d.json", routeData |-> route]) :
             route \in SwitchRoutes }

InitSwitch ==
    /\ routeFilePath = None
    /\ playbackTimetableData = <<>>
    /\ served = [flip |-> FALSE, status |-> 0]

Served(status) == served' = [flip |-> ~served.flip, status |-> status]

\* the handler of /api/load-route?path=...: 400 without a parameter, 403 outside
\* the directory, 404 without a file; a throw after the first two assignments
\* is caught like one before them
ApiLoadRoute(filePath, file) ==
    IF ~IsSome(filePath)
    THEN Served(400) /\ UNCHANGED <<loadedRouteData, routeFilePath, playbackTimetableData>>
    ELSE IF ~Inside(Val(filePath))
    THEN Served(403) /\ UNCHANGED <<loadedRouteData, routeFilePath, playbackTimetableData>>
    ELSE IF ~IsSome(file)
    THEN Served(404) /\ UNCHANGED <<loadedRouteData, routeFilePath, playbackTimetableData>>
    ELSE IF Val(file) = Unparsable
    THEN Served(500) /\ UNCHANGED <<loadedRouteData, routeFilePath, playbackTimetableData>>
    ELSE IF Val(file) = JsonNull
    THEN \* newRouteData.timetable throws on null
         /\ loadedRouteData' = None
         /\ routeFilePath' = filePath
         /\ Served(500)
         /\ UNCHANGED playbackTimetableData
    ELSE /\ loadedRouteData' = Some(Val(file).value)
         /\ routeFilePath' = filePath
         /\ playbackTimetableData' = IF Has(Val(file).value, "timetable")
                                     THEN Val(file).value.timetable ELSE <<>>
         /\ Served(200)

\* the 'end' handler of /api/upload-route
ApiUploadRoute(body) ==
    IF body = Unparsable \/ body = JsonNull
    THEN Served(500) /\ UNCHANGED <<loadedRouteData, routeFilePath, playbackTimetableData>>
    ELSE IF ~(/\ Has(body.value, "routeData")
              /\ Has(body.value.routeData, "coordinates")
              /\ TruthyStr(body.value.routeData, "routeName"))
    THEN Served(400) /\ UNCHANGED <<loadedRouteData, routeFilePath, playbackTimetableData>>
    ELSE /\ loadedRouteData' = Some(body.value.routeData)
         /\ routeFilePath' = Some(body.value.filename)
         /\ playbackTimetableData' = IF Has(body.value.routeData, "timetable")
                                     THEN body.value.routeData.timetable ELSE <<>>
         /\ Served(200)

NextSwitch ==
    /\ \/ \E filePath \in RoutePaths, file \in RouteFiles : ApiLoadRoute(filePath, file)
       \/ \E body \in UploadBodies : ApiUploadRoute(body)
    /\ UNCHANGED <<projection, prevProjection>>

(***************************************************************************)
(* Specifications                                                          *)
(***************************************************************************)
auxVars == <<trkVars, playVars, walkVars>>
extVars == <<pollVars, batchVars, keyVars, obsVars, switchVars>>
vars == <<recVars, resVars, projVars, auxVars, extVars>>

NoInput == RecordingFile(<<>>, <<>>)
RecorderIdle == InitRecorder({None})
ResolverIdle == InitResolver({NoInput})
TrackerIdle == InitTracker({<<>>}, {<<0, 0, 0>>})
WalkIdle ==
    /\ walkArgs = [coordinates |-> << Point(0, 0) >>, startIndex |-> 0, distanceMeters |-> 0]
    /\ walkResult = None
AuxIdle == TrackerIdle /\ InitPlay /\ WalkIdle
BatchIdle == InitBatch({<<>>}, {<<>>})
KeyIdle == InitKey({None})
ExtIdle == InitPoll /\ BatchIdle /\ KeyIdle /\ InitObserve /\ InitSwitch

\* the recorder on position responses, two viewers
TraceSnapshots == Snapshots(TraceEntries)
InitTrace ==
    /\ InitRecorder({None, Some(SkeletonFile(TimetableOA))})
    /\ ResolverIdle /\ InitProjector /\ AuxIdle
    /\ ExtIdle
NextTrace ==
    NextRecorder({1, 2}, TraceSnapshots, MaxTrace) /\ UNCHANGED <<extVars, resVars, projVars, auxVars>>
SpecTrace == InitTrace /\ [][NextTrace]_vars

\* the recorder on position and track-data responses
RecSnapshots == Snapshots(RecEntries)
InitRec ==
    /\ InitRecorder({None, Some(SkeletonFile(TimetableOA))})
    /\ ResolverIdle /\ InitProjector /\ AuxIdle
    /\ ExtIdle
NextRec ==
    NextRecorder({1}, RecSnapshots, MaxRecTrace) /\ UNCHANGED <<extVars, resVars, projVars, auxVars>>
SpecRec == InitRec /\ [][NextRec]_vars

\* the same responses, with the history of the failed writes
InitFail ==
    /\ InitWatched({None, Some(SkeletonFile(TimetableOA))})
    /\ ResolverIdle /\ InitProjector /\ AuxIdle
    /\ ExtIdle
NextFail ==
    NextRecorder({1}, RecSnapshots, MaxRecTrace) /\ UNCHANGED <<extVars, resVars, projVars, auxVars>>
SpecFail == InitFail /\ [][NextFail]_vars

\* the recorder on time-of-day and track-data responses
HudSnapshots == Snapshots(HudEntries)
InitHud ==
    /\ InitRecorder({Some(SkeletonFile(TimetableOAB))})
    /\ ResolverIdle /\ InitProjector /\ AuxIdle
    /\ ExtIdle
NextHud ==
    NextRecorder({1}, HudSnapshots, MaxRecTrace) /\ UNCHANGED <<extVars, resVars, projVars, auxVars>>
SpecHud == InitHud /\ [][NextHud]_vars

\* the resolver on raw recordings
InitRes ==
    /\ RecorderIdle /\ InitResolver(InputFiles) /\ InitProjector /\ AuxIdle
    /\ ExtIdle
NextRes == NextResolver /\ UNCHANGED <<extVars, recVars, projVars, auxVars>>
SpecRes == InitRes /\ [][NextRes]_vars

\* the projector
InitProj ==
    /\ RecorderIdle /\ ResolverIdle /\ InitProjector /\ AuxIdle
    /\ ExtIdle
NextProj == NextProjector /\ UNCHANGED <<extVars, recVars, resVars, auxVars>>
SpecProj == InitProj /\ [][NextProj]_vars

\* the tracker
TrackerTimetables == Timetables(MaxStops)
InitTrk ==
    /\ RecorderIdle /\ ResolverIdle /\ InitProjector /\ InitPlay /\ WalkIdle
    /\ InitTracker(TrackerTimetables, ClockTimes)
    /\ ExtIdle
NextTrk == NextTracker /\ UNCHANGED <<extVars, recVars, resVars, projVars, playVars, walkVars>>
SpecTrk == InitTrk /\ [][NextTrk]_vars

\* the tracker over successive ticks of one run: every shorter timetable, and
\* the longest ones whose times are in stop order
ProgressTimetables ==
    { tt \in TrackerTimetables : Len(tt) < MaxStops \/ NonDecreasing(tt) }
InitProgress ==
    /\ RecorderIdle /\ ResolverIdle /\ InitProjector /\ InitPlay /\ WalkIdle
    /\ InitTracker(ProgressTimetables, ClockTimes)
    /\ ExtIdle
NextProgress ==
    /\ \/ Evaluate
       \/ \E time \in ClockTimes : LaterTick(time)
    /\ UNCHANGED <<extVars, recVars, resVars, projVars, playVars, walkVars>>
SpecProgress == InitProgress /\ [][NextProgress]_vars

\* the playback server's distance to the next marker
InitPlayback ==
    /\ RecorderIdle /\ ResolverIdle /\ InitProjector /\ TrackerIdle /\ InitPlay /\ WalkIdle
    /\ ExtIdle
NextPlayback == NextPlay /\ UNCHANGED <<extVars, recVars, resVars, trkVars, walkVars>>
SpecPlayback == InitPlayback /\ [][NextPlayback]_vars

\* the resolver on recordings with every field the recorder writes
InitOut ==
    /\ RecorderIdle /\ InitResolver(RecordedFiles) /\ InitProjector /\ AuxIdle
    /\ ExtIdle
NextOut == NextResolver /\ UNCHANGED <<extVars, recVars, projVars, auxVars>>
SpecOut == InitOut /\ [][NextOut]_vars

\* the recorder on positions and track data with and without a distance
PersistEntries ==
    { PlayerInfo([geoLocation |-> p]) : p \in RecCoords }
    \cup { TrackData(TRUE, [stations |-> <<it>>]) :
              it \in { Item("A 1", 500), Put(Item("A 1", 150000), "platformLength", 22000),
                       [stationName |-> "B 1"] } }
PersistSnapshots == Snapshots(PersistEntries)
InitPersist ==
    /\ InitRecorder({None, Some(SkeletonFile(TimetableOA))})
    /\ ResolverIdle /\ InitProjector /\ AuxIdle
    /\ ExtIdle
NextPersist ==
    NextRecorder({1}, PersistSnapshots, MaxRecTrace) /\ UNCHANGED <<extVars, resVars, projVars, auxVars>>
SpecPersist == InitPersist /\ [][NextPersist]_vars

\* the recorder across restarts of the server
RestartEntries ==
    { PlayerInfo([geoLocation |-> p]) : p \in RecCoords }
    \cup { TrackData(TRUE, [stations |-> <<Item("A 1", 500)>>]) }
RestartSnapshots == Snapshots(RestartEntries)
InitRestart ==
    /\ InitRecorder({Some(SkeletonFile(TimetableOA))})
    /\ ResolverIdle /\ InitProjector /\ AuxIdle
    /\ ExtIdle
NextRestart ==
    /\ \/ NextRecorder({1}, RestartSnapshots, MaxRecTrace)
       \/ \E graceful \in BOOLEAN : Restart(graceful)
    /\ UNCHANGED <<extVars, resVars, projVars, auxVars>>
SpecRestart == InitRestart /\ [][NextRestart]_vars

\* the recorder on gradients, heights, positions, stations and the time of day
Height(h) == [lastPlayerPosition |-> [height |-> h]]
DataEntries ==
    { DriverData([gradient |-> v]) : v \in {JsNumber(5), JsString("steep")} }
    \cup { PlayerInfo([geoLocation |-> p]) : p \in RecCoords }
    \cup { TrackData(TRUE, v) : v \in { Height(30), [stations |-> <<Item("A 1", 150000)>>] } }
    \cup { TimeOfDay(LocalTime(<<8, 5, 0>>)) }
\* responses of one entry, or of a DriverAid.Data entry and one other entry
DataSnapshots ==
    { s \in Snapshots(DataEntries) :
        Len(s) = 2 => "DriverAid.Data" \in {s[1].Path, s[2].Path} }
InitData ==
    /\ InitWatched({Some(SkeletonFile(TimetableOA))})
    /\ ResolverIdle /\ InitProjector /\ AuxIdle
    /\ ExtIdle
NextData ==
    NextRecorder({1}, DataSnapshots, MaxRecTrace) /\ UNCHANGED <<extVars, resVars, projVars, auxVars>>
SpecData == InitData /\ [][NextData]_vars

\* the resolver over a directory of route files
InitAll ==
    /\ RecorderIdle /\ ResolverIdle /\ InitProjector /\ AuxIdle
    /\ InitPoll /\ KeyIdle /\ InitObserve /\ InitSwitch
    /\ InitBatch(RouteDirectories, CommandLines)
NextAll ==
    /\ NextBatch
    /\ UNCHANGED <<recVars, resVars, projVars, auxVars, pollVars, keyVars, obsVars, switchVars>>
SpecAll == InitAll /\ [][NextAll]_vars

\* the startup of the recording server; timers and requests that are due happen
othersThanKey ==
    <<recVars, resVars, projVars, auxVars, pollVars, batchVars, obsVars, switchVars>>
InitStartup ==
    /\ RecorderIdle /\ ResolverIdle /\ InitProjector /\ AuxIdle
    /\ InitPoll /\ BatchIdle /\ InitObserve /\ InitSwitch /\ InitKey(KeyFileContents)
NextStartup == NextKey /\ UNCHANGED othersThanKey
SpecStartup ==
    InitStartup /\ [][NextStartup]_vars /\ WF_vars(StartupStep /\ UNCHANGED othersThanKey)

\* the recorder passing stations, every write succeeding
OnspotEntries ==
    { PlayerInfo([geoLocation |-> p]) : p \in RecCoords }
    \cup { TrackData(TRUE, v) :
             v \in TrackValues({Item("A 1", 500), Item("A 1", 800), Item("A 1", 150000),
                                Item("B 1", 500)},
                               {Item("A 1", 900)}) }
OnspotSnapshots == Snapshots(OnspotEntries)
InitOnspot ==
    /\ InitRecorder({Some(SkeletonFile(TimetableOA))})
    /\ ResolverIdle /\ InitProjector /\ AuxIdle
    /\ ExtIdle
NextOnspot ==
    /\ NextObserve({1}, OnspotSnapshots, MaxRecTrace)
    /\ UNCHANGED <<resVars, projVars, auxVars, pollVars, batchVars, keyVars, switchVars>>
SpecOnspot == InitOnspot /\ [][NextOnspot]_vars

\* the walk along the polyline
WalkPolylines == Polylines \ {<<>>}
InitWalkSpec ==
    /\ RecorderIdle /\ ResolverIdle /\ InitProjector /\ TrackerIdle /\ InitPlay
    /\ InitWalk(WalkPolylines)
    /\ ExtIdle
NextWalkSpec == NextWalk /\ UNCHANGED <<extVars, recVars, resVars, projVars, trkVars, playVars>>
SpecWalk == InitWalkSpec /\ [][NextWalkSpec]_vars

\* two viewers polling a moving train
InitPolling ==
    /\ InitRecorder({None})
    /\ ResolverIdle /\ InitProjector /\ AuxIdle
    /\ ExtIdle
NextPolling ==
    NextPoll /\ UNCHANGED <<resVars, projVars, auxVars, batchVars, keyVars, obsVars, switchVars>>
SpecPoll == InitPolling /\ [][NextPolling]_vars

\* two viewers coming and going during a recording
ViewerEntries ==
    { PlayerInfo([geoLocation |-> p]) : p \in RecCoords }
    \cup { TrackData(TRUE, [stations |-> <<Item("A 1", 150000)>>]) }
ViewerSnapshots == Snapshots(ViewerEntries)
InitViewers ==
    /\ InitRecorder({None, Some(SkeletonFile(TimetableOA))})
    /\ ResolverIdle /\ InitProjector /\ AuxIdle
    /\ ExtIdle
NextViewing ==
    /\ NextViewers({1, 2}, ViewerSnapshots, MaxRecTrace)
    /\ UNCHANGED <<resVars, projVars, auxVars, pollVars, batchVars, keyVars, switchVars>>
SpecViewers == InitViewers /\ [][NextViewing]_vars

\* the playback server switching routes
InitSwitching ==
    /\ RecorderIdle /\ ResolverIdle /\ InitProjector /\ AuxIdle
    /\ ExtIdle
NextSwitching ==
    /\ NextSwitch
    /\ UNCHANGED <<recVars, resVars, auxVars, pollVars, batchVars, keyVars, obsVars>>
SpecSwitch == InitSwitching /\ [][NextSwitching]_vars

(***************************************************************************)
(* Claims about the recorder                                               *)
(***************************************************************************)
SamePosition(a, b) == a.latitude = b.latitude /\ a.longitude = b.longitude

\* C1 (dedup invariant): the trace never holds two consecutive entries with the
\* same (latitude, longitude), whatever responses were handled, also when a write
\* failed; non-adjacent repeats are allowed.
C1_NoConsecutiveDuplicates ==
    \A i \in 1..(Len(routeCoordinates) - 1) :
        ~SamePosition(routeCoordinates[i], routeCoordinates[i + 1])

\* a duplicate sample was just handled, and the trace holds a non-adjacent repeat
C1_Witness ==
    /\ tick.duplicate
    /\ Len(routeCoordinates) = 3
    /\ SamePosition(routeCoordinates[1], routeCoordinates[3])

\* C2 (marker-name uniqueness): no two entries of discoveredMarkers have the same
\* stationName, whichever array reported the name and in whichever response.
C2_UniqueMarkerNames ==
    \A i, j \in 1..Len(discoveredMarkers) :
        i # j => discoveredMarkers[i].stationName # discoveredMarkers[j].stationName

\* two markers are recorded and one of them was observed again after its creation
C2_Witness ==
    /\ Len(discoveredMarkers) = 2
    /\ \E k \in 1..2 : Has(discoveredMarkers[k], "onspot_latitude")
    /\ \E k \in 1..2 : discoveredMarkers[k].markerType = "Marker"

\* C8 (timetable target invalidation): after a tick that evaluated the timetable
\* and whose target differs from the target of the previous evaluated tick,
\* lastTargetApiName is the new target and the cached distance is what this tick
\* read for it, null when it read nothing.
C8_TargetInvalidation ==
    (tick.evaluated /\ tick.target # tick.prevTarget)
        => /\ lastTargetApiName = tick.target
           /\ lastDistanceToStation = tick.readNow

\* the target moved from one station to another while a distance was cached, and
\* the tick read no distance
C8_Witness ==
    /\ tick.evaluated
    /\ IsSome(tick.target) /\ IsSome(tick.prevTarget) /\ tick.target # tick.prevTarget
    /\ IsSome(tick.prevDistance)
    /\ tick.readNow = None
    /\ lastDistanceToStation = None

\* C9 (no stale distance): a non-null emitted distanceToStation is a distance that
\* a response carried for the tick's current target since that target last changed.
C9_NoStaleDistance ==
    (IsSome(emitted) /\ ~Val(emitted).error /\ IsSome(Val(emitted).distanceToStation))
        => /\ tick.evaluated
           /\ IsSome(tick.target)
           /\ Val(Val(emitted).distanceToStation) \in tick.validDists

\* a cached distance is emitted by a tick that read none, after a target change
C9_Witness ==
    /\ IsSome(emitted) /\ ~Val(emitted).error /\ IsSome(Val(emitted).distanceToStation)
    /\ tick.readNow = None
    /\ tick.target = Some("B 1")

(***************************************************************************)
(* Claims about the resolver                                               *)
(***************************************************************************)
LastRun == Val(resRun)

HasOnspotData(m) ==
    Has(m, "onspot_latitude") /\ Has(m, "onspot_longitude") /\ Has(m, "spoton_distance")
HasDetectionData(m) == Has(m, "detectedAt") /\ Has(m, "distanceAheadMeters")

\* the walk anchored at the on-spot position with the on-spot distance
OnspotWalk(coordinates, m) ==
    followRoutePath(coordinates,
                    findNearestCoordinateIndex(coordinates, m.onspot_latitude,
                                               m.onspot_longitude),
                    Some(m.spoton_distance))
\* the walk anchored at the detection position with the distance ahead
DetectionWalk(coordinates, m) ==
    followRoutePath(coordinates,
                    findNearestCoordinateIndex(coordinates, m.detectedAt.latitude,
                                               m.detectedAt.longitude),
                    m.distanceAheadMeters)

IsAt(m, position) ==
    /\ Has(m, "latitude") /\ Has(m, "longitude")
    /\ m.latitude = position.latitude /\ m.longitude = position.longitude

\* C3 (resolver priority): every marker that carries both on-spot data and
\* detection data is resolved to the on-spot walk, for every coordinate value of
\* the on-spot position.
C3_OnspotPriority ==
    (resStage = "resolved" /\ ~LastRun.result.thrown)
        => \A i \in 1..Len(LastRun.input.markers) :
              LET m == LastRun.input.markers[i] IN
              (HasOnspotData(m) /\ HasDetectionData(m))
                  => IsAt(LastRun.result.output.markers[i],
                          OnspotWalk(LastRun.input.coordinates, m))

SamePositionField(a, b) ==
    /\ Has(a, "latitude") <=> Has(b, "latitude")
    /\ Has(a, "longitude") <=> Has(b, "longitude")
    /\ Has(a, "latitude") => a.latitude = b.latitude
    /\ Has(a, "longitude") => a.longitude = b.longitude

EmbedsTimetable(data) == Has(data, "timetable") /\ Len(data.timetable) > 0

C10_Polyline == << Point(0, 0), Point(0, 1000), Point(0, 2000) >>
C10_Marker == WithDetection(BareMarker("A 1"), Point(0, 0), Some(15000))
C10_Segment == calculateDistance(0, 0, 0, 1000)

\* C10 (resolver scenario): on the polyline (0,0), (0,0.001), (0,0.002) a marker
\* with only detection data, detected at index 0 with 150 m ahead, is resolved to
\* the point of the second segment at fraction (150 - 111)/111.
C10_Scenario ==
    (/\ resStage = "resolved"
     /\ LastRun.input.coordinates = C10_Polyline
     /\ LastRun.input.markers = << C10_Marker >>)
        => IsAt(LastRun.result.output.markers[1],
                [latitude |-> 0,
                 longitude |-> 1000 + (1000 * (15000 - C10_Segment)) \div C10_Segment])

(***************************************************************************)
(* Claims about the projector                                              *)
(***************************************************************************)
Projected == Val(projection)
Previous == Val(prevProjection)
Polyline == Val(loadedRouteData).coordinates

DistanceTo(coordinates, q, j) ==
    calculateDistance(q.latitude, q.longitude, At(coordinates, j).latitude,
                      At(coordinates, j).longitude)

\* index is the lowest of the vertices at minimum distance from q
LowestNearest(coordinates, q, index) ==
    /\ index \in 0..(Len(coordinates) - 1)
    /\ \A j \in 0..(Len(coordinates) - 1) :
          /\ DistanceTo(coordinates, q, index) <= DistanceTo(coordinates, q, j)
          /\ j < index => DistanceTo(coordinates, q, index) < DistanceTo(coordinates, q, j)

\* C7 (nearest-index search): on a non-empty polyline findNearestCoordinateIndex
\* and findNearestRouteIndex return the lowest index among the vertices at minimum
\* distance from the query point, and the same index when called again with the
\* same inputs.
C7_LowestNearestIndex ==
    (IsSome(projection) /\ HasPolyline /\ Len(Polyline) > 0)
        => /\ LowestNearest(Polyline, Projected.player, Projected.playerIndex)
           /\ LowestNearest(Polyline, Projected.marker, Projected.markerIndex)
           /\ LowestNearest(Polyline, Projected.player, Projected.resolverIndex)
           /\ (IsSome(prevProjection) /\ Previous.player = Projected.player)
                 => /\ Previous.playerIndex = Projected.playerIndex
                    /\ Previous.resolverIndex = Projected.resolverIndex

\* the query point is equally near two vertices, neither of them the first, and
\* the search was repeated with the same query point
C7_Witness ==
    /\ IsSome(projection) /\ IsSome(prevProjection) /\ HasPolyline
    /\ Previous.player = Projected.player
    /\ Projected.playerIndex = 1 /\ Projected.resolverIndex = 1
    /\ Len(Polyline) = 3
    /\ DistanceTo(Polyline, Projected.player, 1) = DistanceTo(Polyline, Projected.player, 2)

\* the length of the polyline segment (i, i + 1)
SegmentLength(coordinates, i) == DistanceTo(coordinates, At(coordinates, i), i + 1)

\* the sum of the lengths of the segments whose first index is in `segments`
RECURSIVE TotalLength(_, _)
TotalLength(coordinates, segments) ==
    IF segments = {} THEN 0
    ELSE LET i == CHOOSE j \in segments : TRUE
         IN SegmentLength(coordinates, i) + TotalLength(coordinates, segments \ {i})

\* C31 (projector sum): when the marker's nearest index m is greater than the
\* live position's nearest index p, the projected distance is the sum of the
\* lengths of the segments (i, i + 1) for p <= i < m and nothing else: the
\* distances of the live position and of the marker from their nearest vertices
\* are not added.
C31_ProjectorSum ==
    (/\ IsSome(projection) /\ HasPolyline
     /\ Projected.markerIndex > Projected.playerIndex)
        => Projected.distance =
              Some(TotalLength(Polyline, Projected.playerIndex..(Projected.markerIndex - 1)))

\* a live position off its nearest vertex, a marker two vertices ahead, and the
\* distance is the length of the two segments between the vertices
C31_Witness ==
    /\ IsSome(projection) /\ HasPolyline
    /\ Len(Polyline) = 3
    /\ Projected.playerIndex = 0 /\ Projected.markerIndex = 2
    /\ DistanceTo(Polyline, Projected.player, 0) > 0
    /\ SegmentLength(Polyline, 0) > 0 /\ SegmentLength(Polyline, 1) > 0
    /\ Val(Projected.distance) = SegmentLength(Polyline, 0) + SegmentLength(Polyline, 1)

(***************************************************************************)
(* Claims about the tracker                                                *)
(***************************************************************************)
BothShow(display) ==
    /\ Val(trkDisplay).recorder = display
    /\ Val(trkDisplay).playback = display

\* C11 (before first departure): for a non-empty timetable and a current time
\* strictly before the first stop's departure, both servers display the first
\* stop's departure time, the label DEPARTURE, no target and no distance.
C11_BeforeFirstDeparture ==
    (/\ IsSome(trkDisplay) /\ Len(trkTimetable) > 0
     /\ HasTime(trkTimetable[1].departure)
     /\ Seconds(trkTime) < Seconds(trkTimetable[1].departure))
        => BothShow([time |-> Some(trkTimetable[1].departure), label |-> Some("DEPARTURE"),
                     targetApiName |-> None, showDistance |-> FALSE])

\* at 07:30:00 a timetable of two stops, departure 08:00:00, shows the departure
C11_Witness ==
    /\ IsSome(trkDisplay) /\ Len(trkTimetable) = 2
    /\ trkTime = <<7, 30, 0>>
    /\ trkTimetable[1].departure = <<8, 0, 0>>
    /\ trkTimetable[2].arrival = <<8, 10, 0>>
    /\ Val(trkDisplay).recorder.time = Some(<<8, 0, 0>>)
    /\ Val(trkDisplay).recorder.label = Some("DEPARTURE")

\* C12 (en route): for a timetable with non-decreasing times and a stop i that is
\* not the last, at a time t with departure(i) <= t < arrival(i+1) both servers
\* display the arrival time, the destination and the apiName of stop i+1, with
\* the distance shown.
C12_EnRoute ==
    (IsSome(trkDisplay) /\ NonDecreasing(trkTimetable))
        => \A i \in 1..(Len(trkTimetable) - 1) :
              (/\ HasTime(trkTimetable[i].departure)
               /\ HasTime(trkTimetable[i + 1].arrival)
               /\ Seconds(trkTimetable[i].departure) <= Seconds(trkTime)
               /\ Seconds(trkTime) < Seconds(trkTimetable[i + 1].arrival))
                  => BothShow([time |-> Some(trkTimetable[i + 1].arrival),
                               label |-> Some(trkTimetable[i + 1].destination),
                               targetApiName |-> Some(trkTimetable[i + 1].apiName),
                               showDistance |-> TRUE])

\* between the second stop's departure and the third stop's arrival the third
\* stop is the target
C12_Witness ==
    /\ IsSome(trkDisplay) /\ Len(trkTimetable) = 3 /\ NonDecreasing(trkTimetable)
    /\ trkTimetable[1].departure = <<8, 0, 0>>
    /\ trkTimetable[2].departure = <<8, 0, 0>>
    /\ trkTimetable[3].arrival = <<8, 10, 0>>
    /\ trkTime = <<8, 5, 0>>
    /\ Val(trkDisplay).recorder.targetApiName = Some("B 1")
    /\ Val(trkDisplay).playback.showDistance

LastStop == trkTimetable[Len(trkTimetable)]

\* the display has a time and a label
Shown(display) == display.time # None /\ display.label # None

\* the current time is at or after the last stop's arrival, in a timetable with
\* non-decreasing times
AfterLastArrival ==
    /\ IsSome(trkDisplay) /\ Len(trkTimetable) > 0 /\ NonDecreasing(trkTimetable)
    /\ HasTime(LastStop.arrival)
    /\ Seconds(trkTime) >= Seconds(LastStop.arrival)

\* the last stop has a departure time that the current time has not reached
BeforeLastDeparture ==
    HasTime(LastStop.departure) /\ Seconds(trkTime) < Seconds(LastStop.departure)

C33_Progress ==
    NonDecreasing(trkTimetable) =>
        /\ \A k \in 1..(Len(trkTargets) - 1) : trkTargets[k] < trkTargets[k + 1]
        /\ IsSome(trkDisplay) =>
              Val(trkDisplay).playback.targetApiName = Val(trkDisplay).recorder.targetApiName

\* on a three-stop timetable the target went from the second stop to the third
\* as the time of day passed the second stop's departure
C33_Witness ==
    /\ NonDecreasing(trkTimetable) /\ Len(trkTimetable) = 3
    /\ trkTargets = <<2, 3>>
    /\ trkTimetable[2].departure = <<8, 10, 0>>
    /\ trkTime = <<8, 15, 0>>
    /\ IsSome(trkDisplay)
    /\ Val(trkDisplay).recorder.targetApiName = Some(LastStop.apiName)

(***************************************************************************)
(* Claims about the playback server                                        *)
(***************************************************************************)
Ticked == Val(playTick)
LoadedRoute == Val(loadedRouteData)

\* the loaded route has no polyline: coordinates missing or empty
NoPolyline == ~Has(LoadedRoute, "coordinates") \/ Len(LoadedRoute.coordinates) = 0

\* the target marker has no resolved latitude/longitude
TargetUnresolved ==
    \/ ~IsSome(Ticked.target)
    \/ ~Has(LoadedRoute, "markers")
    \/ \A k \in 1..Len(LoadedRoute.markers) :
          LoadedRoute.markers[k].stationName = Val(Ticked.target)
              => ~(Has(LoadedRoute.markers[k], "latitude")
                   /\ Has(LoadedRoute.markers[k], "longitude"))

\* C14 (projector unavailability): the projected distance is null whenever the
\* loaded route has no polyline (coordinates missing or empty) or the target
\* marker has no resolved latitude/longitude, in particular when the marker
\* carries only raw detection fields.
C14_Unavailable ==
    (IsSome(playTick) /\ IsSome(loadedRouteData) /\ (NoPolyline \/ TargetUnresolved))
        => Ticked.distanceToStation = None

\* the timetable embedded in the loaded route, empty when there is none
EmbeddedTimetable ==
    IF IsSome(loadedRouteData) /\ Has(Val(loadedRouteData), "timetable")
    THEN Val(loadedRouteData).timetable ELSE <<>>

\* a request has just been answered with an error status
Refused == served'.flip # served.flip /\ served'.status >= 400

\* C36 (route switch atomicity): a load-route or upload-route request that fails
\* leaves loadedRouteData, routeFilePath and timetableData unchanged, a request
\* that succeeds replaces the three together, and so in every state a poll tick
\* can observe timetableData is the timetable of loadedRouteData, empty when the
\* route has none.
C36_SwitchAtomic ==
    /\ [](playbackTimetableData = EmbeddedTimetable)
    /\ [][Refused => UNCHANGED <<loadedRouteData, routeFilePath, playbackTimetableData>>]_vars

(***************************************************************************)
(* Claims about the walk                                                   *)
(***************************************************************************)
Interpolated(a, b, d, length) ==
    [latitude |-> a.latitude + ((b.latitude - a.latitude) * d) \div length,
     longitude |-> a.longitude + ((b.longitude - a.longitude) * d) \div length]

\* the point at arc length d ahead of vertex i: vertex i when d = 0, inside the
\* segment where the accumulated length first reaches d, the last vertex when
\* the polyline ends before
RECURSIVE ArcPoint(_, _, _)
ArcPoint(coordinates, i, d) ==
    IF d = 0 \/ i >= Len(coordinates) - 1
    THEN PositionOf(At(coordinates, IF i >= Len(coordinates) - 1
                                    THEN Len(coordinates) - 1 ELSE i))
    ELSE LET length == DistanceTo(coordinates, At(coordinates, i), i + 1)
         IN IF length >= d
            THEN Interpolated(At(coordinates, i), At(coordinates, i + 1), d, length)
            ELSE ArcPoint(coordinates, i + 1, d - length)

\* C15 (walk-forward result): for every polyline, start index s and distance
\* d >= 0, followRoutePath returns the point at arc length d ahead of vertex s:
\* vertex s itself when d = 0, an interpolated point otherwise, the last
\* TracePoint only when the polyline ends before d is consumed.
C15_WalkForward ==
    IsSome(walkResult)
        => Val(walkResult)
             = ArcPoint(walkArgs.coordinates, walkArgs.startIndex, walkArgs.distanceMeters)

(***************************************************************************)
(* Claims about the resolver's output                                      *)
(***************************************************************************)
InputMarkers == LastRun.input.markers
OutputMarkers == LastRun.result.output.markers
Resolved == resStage = "resolved" /\ ~LastRun.result.thrown

SchemaFields == {"stationName", "markerType", "latitude", "longitude", "platformLength"}

\* C16 (output schema): after processMarkers every marker carries only its name,
\* its kind, its resolved latitude/longitude and, when the detection had one, its
\* platform length; the detection-time fields and every other field are absent.
C16_OutputSchema ==
    Resolved =>
        \A i \in 1..Len(InputMarkers) :
            /\ DOMAIN OutputMarkers[i] \subseteq SchemaFields
            /\ OutputMarkers[i].stationName = InputMarkers[i].stationName
            /\ OutputMarkers[i].markerType = InputMarkers[i].markerType
            /\ Has(InputMarkers[i], "platformLength")
                  => /\ Has(OutputMarkers[i], "platformLength")
                     /\ OutputMarkers[i].platformLength = InputMarkers[i].platformLength

\* the resolution of the marker was counted in errorCount: the 'none' branch or
\* the catch block ran
CountedFailed(coordinates, marker) ==
    LET r == ResolveMarker(coordinates, marker, {})
    IN r.counted = "none" \/ r.caught

\* C17 (failure isolation): a marker whose resolution is counted as failed has
\* no latitude/longitude in the output and keeps its name and kind, and every
\* other marker is resolved as if the failed marker were absent.
C17_FailureIsolation ==
    Resolved =>
        \A i \in 1..Len(InputMarkers) :
            CountedFailed(LastRun.input.coordinates, InputMarkers[i])
                => /\ ~Has(OutputMarkers[i], "latitude")
                   /\ ~Has(OutputMarkers[i], "longitude")
                   /\ OutputMarkers[i].stationName = InputMarkers[i].stationName
                   /\ OutputMarkers[i].markerType = InputMarkers[i].markerType
                   /\ \A j \in 1..Len(InputMarkers) :
                         j # i => OutputMarkers[j]
                                    = processMarkers([LastRun.input EXCEPT !.markers =
                                                         << InputMarkers[j] >>],
                                                     ApiNames(IF EmbedsTimetable(LastRun.input)
                                                              THEN LastRun.input.timetable
                                                              ELSE LastRun.csv)).data.markers[1]

\* C18 (documented marker output): after post-trip processing each marker of the
\* output file has a calculationMethod of 'onspot', 'detectedAt' or 'error'.
C18_CalculationMethod ==
    (Resolved /\ LastRun.result.written)
        => \A i \in 1..Len(OutputMarkers) :
              /\ Has(OutputMarkers[i], "calculationMethod")
              /\ OutputMarkers[i].calculationMethod \in {"onspot", "detectedAt", "error"}

\* the name and the kind of a marker, as far as it has them
Identity(marker) ==
    [f \in DOMAIN marker \cap {"stationName", "markerType"} |-> marker[f]]

\* C38 (resolver frame): a run of the resolver leaves data.coordinates as it
\* was and neither adds, removes nor reorders markers: the output has as many
\* markers as the input, and the marker at each index has the name and the kind
\* of the input marker at that index.
C38_ResolverFrame ==
    IsSome(resRun) =>
        /\ LastRun.result.output.coordinates = LastRun.input.coordinates
        /\ Len(OutputMarkers) = Len(InputMarkers)
        /\ \A i \in 1..Len(InputMarkers) :
              Identity(OutputMarkers[i]) = Identity(InputMarkers[i])

\* a recording of a station and a marker was resolved: the first by its on-spot
\* position, the second not at all
C38_Witness ==
    /\ Resolved /\ LastRun.result.written
    /\ Len(InputMarkers) = 2
    /\ Has(InputMarkers[1], "spoton_distance")
    /\ Has(OutputMarkers[1], "latitude")
    /\ CountedFailed(LastRun.input.coordinates, InputMarkers[2])
    /\ InputMarkers[1].markerType # InputMarkers[2].markerType
    /\ InputMarkers[1].stationName # InputMarkers[2].stationName

(***************************************************************************)
(* Claims about the persisted recording                                    *)
(***************************************************************************)
InMemory == <<routeCoordinates, discoveredMarkers>>

\* C19 (write-through persistence): after every handler step that appends a
\* TracePoint, creates a marker or updates on-spot fields and whose writes
\* succeed, the coordinates and markers of the persisted file are the in-memory
\* routeCoordinates and discoveredMarkers as JSON writes them.
C19_WriteThrough ==
    [][ (IsSome(emitted') /\ ~Val(emitted').error /\ InMemory' # InMemory)
            => /\ IsSome(routeFile')
               /\ Val(routeFile').coordinates = routeCoordinates'
               /\ Val(routeFile').markers = MarkersToJSON(discoveredMarkers') ]_vars

\* the file holds two TracePoints and two markers, one passed on the spot and
\* one created without a distance, as memory does
C19_Witness ==
    /\ IsSome(routeFile) /\ IsSome(emitted) /\ ~Val(emitted).error
    /\ Len(routeCoordinates) = 2 /\ Len(discoveredMarkers) = 2
    /\ Val(routeFile).coordinates = routeCoordinates
    /\ Val(routeFile).markers = MarkersToJSON(discoveredMarkers)
    /\ \E k \in 1..2 : Has(Val(routeFile).markers[k], "onspot_latitude")
    /\ \E k \in 1..2 : /\ discoveredMarkers[k].distanceAheadMeters = NaN
                       /\ Val(routeFile).markers[k].distanceAheadMeters = None

IsPrefix(a, b) == Len(a) <= Len(b) /\ \A i \in 1..Len(a) : b[i] = a[i]

\* C20 (append-only trace): across successive persists of the route file the
\* previously persisted coordinates are a prefix of the newly persisted ones.
C20_AppendOnly ==
    [][ (IsSome(routeFile) /\ IsSome(routeFile'))
            => IsPrefix(Val(routeFile).coordinates, Val(routeFile').coordinates) ]_vars

(***************************************************************************)
(* Claims about failures inside a tick                                     *)
(***************************************************************************)
\* C21 (persistence failure): when a write of the route file fails during a
\* tick the failure is swallowed: the timer keeps running, memory keeps the
\* mutation being persisted, and the remaining entries of the snapshot are still
\* processed, so the tick leaves the recording the same response leaves when
\* every write succeeds, and emits a normal payload.
C21_FailureSwallowed ==
    tick.writeFailed =>
        /\ ~Val(emitted).error
        /\ ~tick.lost

\* C22 (malformed entry isolation): when an entry of a snapshot carries a
\* wrongly typed value (a gradient that is not a number) only that update is
\* skipped: the tick leaves the recording, and emits the payload, that the other
\* entries of the snapshot give on their own.
C22_MalformedIsolation ==
    IsSome(tick.isolated) =>
        /\ emitted = Some(Val(tick.isolated).payload)
        /\ Recording(Globals) = Val(tick.isolated).recording

\* C23 (partial marker candidates): a station or marker entry without a numeric
\* distance creates no MarkerDetection and does not enter the seen-set: every
\* recorded marker, and so every seen name, has a numeric distance-ahead.
C23_PartialSkipped ==
    /\ \A k \in 1..Len(discoveredMarkers) : discoveredMarkers[k].distanceAheadMeters # NaN
    /\ \A name \in processedMarkers :
          \E k \in 1..Len(discoveredMarkers) :
              /\ discoveredMarkers[k].stationName = name
              /\ IsSome(discoveredMarkers[k].distanceAheadMeters)

(***************************************************************************)
(* Claims about the invariants of a recording                              *)
(***************************************************************************)
\* a TracePoint of the trace has this latitude and longitude
OnTrace(trace, latitude, longitude) ==
    \E i \in 1..Len(trace) :
        trace[i].latitude = latitude /\ trace[i].longitude = longitude

\* no marker without a trace, every anchor at the position of a TracePoint, and
\* lastRouteCoordinate the last TracePoint
AnchorsOnTrace ==
    /\ routeCoordinates = <<>> => discoveredMarkers = <<>>
    /\ \A k \in 1..Len(discoveredMarkers) :
          /\ OnTrace(routeCoordinates, discoveredMarkers[k].detectedAt.latitude,
                     discoveredMarkers[k].detectedAt.longitude)
          /\ Has(discoveredMarkers[k], "onspot_latitude")
                => OnTrace(routeCoordinates, discoveredMarkers[k].onspot_latitude,
                           discoveredMarkers[k].onspot_longitude)
    /\ lastRouteCoordinate = IF routeCoordinates = <<>> THEN None
                             ELSE Some(routeCoordinates[Len(routeCoordinates)])

\* marker k has just been created
Created(k) == k > Len(discoveredMarkers)

\* the on-spot position of marker k has just been written with a new value
Passed(k) ==
    /\ Has(discoveredMarkers'[k], "onspot_latitude")
    /\ \/ Created(k)
       \/ ~Has(discoveredMarkers[k], "onspot_latitude")
       \/ discoveredMarkers'[k].onspot_latitude # discoveredMarkers[k].onspot_latitude
       \/ discoveredMarkers'[k].onspot_longitude # discoveredMarkers[k].onspot_longitude

\* the TracePoints that were the last one at some time during the step: the
\* last one before it and those it appended
LastDuring ==
    SubSeq(routeCoordinates', IF routeCoordinates = <<>> THEN 1 ELSE Len(routeCoordinates),
           Len(routeCoordinates'))

\* an anchor written by a step is at a TracePoint that was the last one during
\* the step
AnchoredAtLast ==
    \A k \in 1..Len(discoveredMarkers') :
        /\ Created(k)
              => OnTrace(LastDuring, discoveredMarkers'[k].detectedAt.latitude,
                         discoveredMarkers'[k].detectedAt.longitude)
        /\ Passed(k)
              => OnTrace(LastDuring, discoveredMarkers'[k].onspot_latitude,
                         discoveredMarkers'[k].onspot_longitude)

\* a viewer has just connected
Connected == joined' # joined

\* C37 (recording is initialised once): the start time and the output file path
\* are set by the first viewer connection and never change afterwards, and no
\* connection or disconnection of a viewer, the first one included, changes the
\* in-memory trace, the markers or the seen-set.
C37_InitialisedOnce ==
    [][ /\ routeCollectionStartTime # None
              => UNCHANGED <<routeCollectionStartTime, routeOutputFilePath>>
        /\ (Connected /\ routeCollectionStartTime = None)
              => routeCollectionStartTime' # None /\ routeOutputFilePath' # None
        /\ intervals' # intervals
              => UNCHANGED <<routeCoordinates, lastRouteCoordinate, discoveredMarkers,
                             processedMarkers>> ]_vars

\* the second viewer connected when the recording already held two TracePoints
\* and a marker, and they are still there
C37_Witness ==
    /\ IsSome(joined) /\ Val(joined).viewer = 2 /\ Val(joined).started
    /\ Val(joined).points = 2 /\ Val(joined).markers = 1
    /\ intervals = {1, 2}
    /\ Len(routeCoordinates) = 2 /\ Len(discoveredMarkers) = 1
    /\ processedMarkers = {"A 1"}
    /\ routeOutputFilePath # None

C35_FileConsistency ==
    IsSome(routeFile) =>
        /\ Val(routeFile).totalPoints = Len(Val(routeFile).coordinates)
        /\ Val(routeFile).totalMarkers = Len(Val(routeFile).markers)
        /\ IsSome(skeleton) =>
              /\ Val(routeFile).routeName = Val(skeleton).routeName
              /\ Has(Val(routeFile), "timetable") = Has(Val(skeleton), "timetable")
              /\ Has(Val(skeleton), "timetable")
                    => Val(routeFile).timetable = Val(skeleton).timetable

\* a recording started from a skeleton with a timetable has saved two TracePoints
\* and a marker, each with a write of its own
C35_Witness ==
    /\ IsSome(skeleton) /\ IsSome(routeFile)
    /\ Val(skeleton).timetable # <<>>
    /\ Val(routeFile).totalPoints = 2 /\ Val(routeFile).totalMarkers = 1
    /\ Val(routeFile).timetable = Val(skeleton).timetable
    /\ Val(routeFile).coordinates = routeCoordinates

\* C34 (marker anchors lie on the trace): in every reachable state of the
\* recorder no marker exists while the trace is empty, every marker's detection
\* position and on-spot position are the latitude and longitude of a TracePoint
\* of the trace, one that was the last at the time of the tick that wrote the
\* field, and lastRouteCoordinate is the last element of the trace.
C34_AnchorsOnTrace == []AnchorsOnTrace /\ [][AnchoredAtLast]_vars

\* a marker detected at the first TracePoint and passed at the second
C34_Witness ==
    /\ Len(routeCoordinates) = 2 /\ Len(discoveredMarkers) = 1
    /\ SamePosition(discoveredMarkers[1].detectedAt, routeCoordinates[1])
    /\ Has(discoveredMarkers[1], "onspot_latitude")
    /\ discoveredMarkers[1].onspot_latitude = routeCoordinates[2].latitude
    /\ discoveredMarkers[1].onspot_longitude = routeCoordinates[2].longitude
    /\ ~SamePosition(routeCoordinates[1], routeCoordinates[2])

(***************************************************************************)
(* Claims about the poll timers                                            *)
(***************************************************************************)
\* C24 (viewer disconnect): a timer fires only while its viewer is connected, so
\* after the viewer's 'close' it never fires again; a 'close' stops the timer of
\* that viewer only, and nothing but the viewer's 'close' stops a timer.
C24_ViewerDisconnect ==
    [][ /\ \A v \in Viewers : fires'[v] # fires[v] => v \in intervals
        /\ \A v \in intervals \ intervals' : event' = [kind |-> "close", viewer |-> v]
        /\ event'.kind = "close" => intervals' = intervals \ {event'.viewer} ]_vars

\* viewer 1 has polled and disconnected; viewer 2's timer has fired since
C24_Witness ==
    /\ fires[1] > 0 /\ 1 \notin intervals
    /\ 2 \in intervals /\ event = [kind |-> "fire", viewer |-> 2]

\* the index of a recorded position among the positions of the source
SampleOf(coordinate) ==
    CHOOSE n \in 1..Len(SourcePositions) : SamePosition(SourcePositions[n], coordinate)

\* C27 (trace order under overlapping polls): the TracePoints are in the order in
\* which the telemetry source produced their positions.
C27_TraceOrder ==
    \A i, j \in 1..Len(routeCoordinates) :
        i < j => SampleOf(routeCoordinates[i]) <= SampleOf(routeCoordinates[j])

(***************************************************************************)
(* Claims about the resolver in --all mode                                 *)
(***************************************************************************)
Handled == 1..fileIndex
Throws(i) == ProcessFile(files[i]).thrown

KeyPresent == IsSome(keyFile) /\ Trim(Val(keyFile)) # <<>>
Listening == startup = "listening"

\* C26 (credential wait): no request to the telemetry source and no listen
\* happens before a non-empty API key has been read; while the key file is
\* missing or empty the read is retried without end; and if the file
\* eventually holds a non-empty key the server eventually listens.
C26_CredentialWait ==
    /\ []((requests # {} \/ startup \notin {"reading", "sleeping"})
            => (apiKey # <<>> /\ Trim(apiKey) = apiKey))
    /\ [](startup \in {"reading", "sleeping"} => apiKey = <<>>)
    /\ (<>[]KeyPresent) => <>Listening

\* the server listens with a key it had to wait for
C26_Witness ==
    /\ Listening /\ waits > 0
    /\ apiKey = << "k", "e", "y" >> /\ "post" \in requests

(***************************************************************************)
(* Claims about markers during recording                                   *)
(***************************************************************************)
OnspotFields == {"onspot_latitude", "onspot_longitude", "onspot_timestamp", "spoton_distance"}
BaseRecord(marker) == Del(marker, OnspotFields)

\* C28 (first detection wins): once a MarkerDetection exists, no later snapshot
\* changes its kind, detection position, distance-ahead or platform length, or
\* removes or moves it; only its on-spot fields may change.
C28_FirstDetectionWins ==
    [][ \A k \in 1..Len(discoveredMarkers) :
            /\ k <= Len(discoveredMarkers')
            /\ BaseRecord(discoveredMarkers'[k]) = BaseRecord(discoveredMarkers[k]) ]_vars

\* a station detected 1500 m ahead at one position and passed within 10 m at another
C28_Witness ==
    \E k \in 1..Len(discoveredMarkers) :
        LET m == discoveredMarkers[k] IN
        /\ m.distanceAheadMeters = Some(CmToMeters(150000))
        /\ Has(m, "onspot_longitude")
        /\ m.onspot_longitude # m.detectedAt.longitude
        /\ m.spoton_distance = CmToMeters(500)

\* C30 (duplicate position): a response that holds only a position equal in
\* latitude and longitude to the last appended TracePoint leaves the trace, the
\* markers, the seen-set, the request counter and the persisted file unchanged
\* and writes nothing, whatever the current elevation and gradient are.
C30_DuplicateNoOp ==
    [][ (tick'.duplicate /\ tick'.positionOnly /\ emitted' # None)
            => /\ UNCHANGED <<routeCoordinates, lastRouteCoordinate, discoveredMarkers,
                              processedMarkers, routeCollectionRequestCount, routeFile>>
               /\ ~tick'.writeFailed /\ ~Val(emitted').error ]_vars

\* a duplicate position has been handled while the current height and gradient
\* differ from those stored with the last TracePoint
C30_Witness ==
    /\ tick.duplicate /\ tick.positionOnly
    /\ IsSome(lastRouteCoordinate) /\ IsSome(currentPlayerPosition)
    /\ SamePosition(Val(currentPlayerPosition), Val(lastRouteCoordinate))
    /\ ~Has(Val(lastRouteCoordinate), "height") /\ Has(Val(currentPlayerPosition), "height")
    /\ ~Has(Val(lastRouteCoordinate), "gradient") /\ Has(Val(currentPlayerPosition), "gradient")

\* the on-spot fields of a marker, if it has them
OnspotOf(marker) ==
    IF Has(marker, "onspot_latitude")
    THEN Some([latitude |-> marker.onspot_latitude, longitude |-> marker.onspot_longitude,
               distance |-> marker.spoton_distance])
    ELSE None

MarkerNames == {"A 1", "B 1"}

\* what a sequence of observations calls for: the first observation of a name
\* creates its marker, a later one below 1000 cm of a timetable name sets the
\* on-spot fields to the player position and distance / 100
RECURSIVE ObserveItems(_, _, _)
ObserveItems(acc, items, i) ==
    IF i > Len(items) THEN acc
    ELSE LET name == items[i].stationName
             next == IF name \notin acc.created
                     THEN [acc EXCEPT !.created = @ \cup {name}]
                     ELSE IF items[i].distanceToStationCM < 1000
                             /\ \E k \in 1..Len(timetableData) : timetableData[k].apiName = name
                     THEN [acc EXCEPT !.onspot[name] =
                              Some([latitude |-> Val(acc.position).latitude,
                                    longitude |-> Val(acc.position).longitude,
                                    distance |-> CmToMeters(items[i].distanceToStationCM)])]
                     ELSE acc
         IN ObserveItems(next, items, i + 1)

RECURSIVE ObserveEntries(_, _, _)
ObserveEntries(acc, entries, i) ==
    IF i > Len(entries) THEN acc
    ELSE LET e == entries[i]
             next == IF e.Path = "DriverAid.PlayerInfo"
                     THEN [acc EXCEPT !.position = Some(e.Values.geoLocation)]
                     ELSE IF e.Path = "DriverAid.TrackData" /\ IsSome(acc.position)
                     THEN ObserveItems(ObserveItems(acc, e.Values.stations, 1),
                                       e.Values.markers, 1)
                     ELSE acc
         IN ObserveEntries(next, entries, i + 1)

\* the observations of the response handled last, applied to the markers before it
Observed(entries) ==
    ObserveEntries(
        [position |-> currentPlayerPosition,
         created |-> { discoveredMarkers[k].stationName : k \in 1..Len(discoveredMarkers) },
         onspot |-> [name \in MarkerNames |->
                       LET k == SeqIndexOf(discoveredMarkers, name, 1)
                       IN IF k = 0 THEN None ELSE OnspotOf(discoveredMarkers[k])]],
        entries, 1)

====
